---- MODULE Spec2Model ----
(***************************************************************************)
(* nasx root-worker: the privileged filesystem execution service.          *)
(*                                                                         *)
(*   SpecCred  the Privilege Context Executor (userctx.go runAsUser,       *)
(*             main.go withUser) run by concurrent handler goroutines on   *)
(*             the OS threads of the Go runtime.                           *)
(*   Spec      the durable work queue: the JetStream pull consumer, the    *)
(*             pull loop, handleTask and the filesystem operations, and    *)
(*             the request/reply handlers.                                 *)
(***************************************************************************)
EXTENDS Integers, Sequences, FiniteSets, TLC

(***************************************************************************)
(* Part 1.  Identities and credentials                                     *)
(***************************************************************************)

\* Number of concurrent units of work (handler goroutines) in SpecCred.
NumUnits == 2

Units == 1 .. NumUnits

\* One OS thread more than there are units: every unit retires at most one
\* thread, so the scheduler always has a pool thread left.
Threads == 1 .. (NumUnits + 1)

\* The identities of the accounts of the initial account database.
Passwd ==
  [ alice |-> [uid |-> 1000, gid |-> 1000, gids |-> {1000, 27}],
    bob   |-> [uid |-> 1001, gid |-> 1001, gids |-> {1001}],
    root  |-> [uid |-> 0,    gid |-> 0,    gids |-> {0}] ]

\* Account names a request can carry: resolvable ones, an unknown one, none.
Usernames == {"", "alice", "bob", "ghost"}

\* userCtx{uid: 0, gid: 0, gids: []int{0}}
RootCtx == [uid |-> 0, gid |-> 0, gids |-> {0}]

\* The account database read by user.Lookup and u.GroupIds: account name ->
\* its ids, its groups and whether the groups can be enumerated.  It is
\* state, an administrator can change it while the worker runs.
VARIABLE passwd

\* The database the worker starts with: the accounts of Passwd, and carol,
\* whose groups cannot be enumerated.
PasswdDb ==
  [n \in DOMAIN Passwd \cup {"carol"} |->
     IF n = "carol"
       THEN [uid |-> 1002, gid |-> 1002, gids |-> {1002}, groupsOk |-> FALSE]
       ELSE [uid |-> Passwd[n].uid, gid |-> Passwd[n].gid,
             gids |-> Passwd[n].gids, groupsOk |-> TRUE]]

\* A resolveUser that answers from the database the worker started with.
resolveUserCached(username) ==
  IF username \notin DOMAIN PasswdDb
    THEN [err |-> TRUE, ctx |-> RootCtx, msg |-> "user: unknown user"]
  ELSE IF ~PasswdDb[username].groupsOk
    THEN [err |-> TRUE, ctx |-> RootCtx, msg |-> "groups: lookup failed"]
  ELSE [err |-> FALSE, msg |-> "",
        ctx |-> [uid |-> PasswdDb[username].uid, gid |-> PasswdDb[username].gid,
                 gids |-> PasswdDb[username].gids]]

\* resolveUser: user.Lookup fails for an account that does not exist,
\* u.GroupIds when the groups cannot be enumerated; msg is the text of the
\* error returned, "user ...: unknown user ..." or "groups: ...".
resolveUser(username) ==
  IF username \notin DOMAIN passwd
    THEN [err |-> TRUE, ctx |-> RootCtx, msg |-> "user: unknown user"]
  ELSE IF ~passwd[username].groupsOk
    THEN [err |-> TRUE, ctx |-> RootCtx, msg |-> "groups: lookup failed"]
  ELSE [err |-> FALSE, msg |-> "",
        ctx |-> [uid |-> passwd[username].uid, gid |-> passwd[username].gid,
                 gids |-> passwd[username].gids]]

\* resolveUserCtx: the empty name is the zero identity, without any lookup.
resolveUserCtx(username) ==
  IF username = "" THEN [err |-> FALSE, ctx |-> RootCtx, msg |-> ""]
                   ELSE resolveUser(username)

\* Credentials of one OS thread.  The real and saved ids are 0 throughout
\* (Setresuid(0, uid, 0), Setresgid(gid, gid, 0) with rgid = egid), so the
\* effective ids and the supplementary groups are the whole state.
RootCred == [euid |-> 0, egid |-> 0, groups |-> {0}]

\* Kernel permission checks.  The effective capability set is raised when
\* the effective uid is 0 and cleared when it is not (real uid stays 0, so
\* the permitted set is kept).
CanSetgroups(c) == c.euid = 0
CanSetresgid(c, g) == c.euid = 0 \/ g \in {c.egid, 0}
CanSetresuid(c, u) == c.euid = 0 \/ u \in {c.euid, 0}

(***************************************************************************)
(* Paths.  A path string is the sequence of its components and a component *)
(* the sequence of its tokens, so "/d/f (1).txt" is                        *)
(* << <<"/">>, <<"d">>, <<"f", " (1)", ".txt">> >>.  An absolute path      *)
(* starts with the component <<"/">>; the empty string is << >>.           *)
(***************************************************************************)

Slash == <<"/">>
Dot == <<".">>
DotDot == <<"..">>
Root == <<Slash>>

\* The token standing for a NUL byte inside a component.
Nul == "\\0"

\* Extension tokens: the part of a base name from its last dot on.
Exts == {".txt", ".part"}

RECURSIVE CleanFrom(_, _)
\* filepath.Clean on components: "." and a repeated separator are dropped, ".." removes the component
\* before it (nothing above the root, kept at the start of a relative path).
CleanFrom(acc, rest) ==
  IF rest = << >> THEN acc
  ELSE LET c == Head(rest) IN
    IF c = Dot \/ c = Slash THEN CleanFrom(acc, Tail(rest))
    ELSE IF c = DotDot
      THEN IF acc = Root THEN CleanFrom(acc, Tail(rest))
           ELSE IF acc = << >> \/ acc[Len(acc)] = DotDot
             THEN CleanFrom(Append(acc, c), Tail(rest))
           ELSE CleanFrom(SubSeq(acc, 1, Len(acc) - 1), Tail(rest))
    ELSE CleanFrom(Append(acc, c), Tail(rest))

\* filepath.Clean: the empty path cleans to ".".
Clean(p) ==
  LET q == IF p # << >> /\ Head(p) = Slash
             THEN CleanFrom(Root, Tail(p)) ELSE CleanFrom(<< >>, p)
  IN IF q = << >> THEN <<Dot>> ELSE q

IsAbs(p) == p # << >> /\ Head(p) = Slash

ContainsNul(p) ==
  \E i \in 1 .. Len(p) : \E j \in 1 .. Len(p[i]) : p[i][j] = Nul

\* filepath.Join of a directory and a relative name.
Join(dir, name) ==
  IF dir = << >> /\ name = << >> THEN << >> ELSE Clean(dir \o name)

\* filepath.Base and filepath.Dir.  Dir drops the last element (the empty
\* one after a trailing separator too) and cleans what is left.
Base(p) == IF p = << >> THEN Dot ELSE Clean(p)[Len(Clean(p))]
Dir(p) ==
  IF Len(p) <= 1 THEN (IF IsAbs(p) THEN Root ELSE <<Dot>>)
  ELSE Clean(SubSeq(p, 1, Len(p) - 1))

\* filepath.Ext of a base name, and the name without it.
Ext(base) ==
  IF base # << >> /\ base[Len(base)] \in Exts THEN <<base[Len(base)]>>
  ELSE << >>
TrimExt(base) == SubSeq(base, 1, Len(base) - Len(Ext(base)))

\* fmt.Sprintf(" (%d)", n)
NumTok(n) == <<" (1)", " (2)", " (3)", " (4)", " (5)", " (6)">>[n]

\* validatePath: "" when the path is accepted, else the error message.
validatePath(p) ==
  IF ContainsNul(p) THEN "invalid path: null byte"
  ELSE IF ~IsAbs(Clean(p)) THEN "invalid path: must be absolute"
  ELSE ""

(***************************************************************************)
(* The filesystem: a function from the absolute paths that exist to their  *)
(* entries, [kind |-> "dir" | "file", data, mode, uid, gid].               *)
(***************************************************************************)

\* Candidates tried by doMkdir and uniqueDst (1000 in the worker).
MaxCandidates == 2

\* Longest path the kernel accepts, in components (PATH_MAX).
MaxPathLen == 6

IsPrefix(a, b) == Len(a) <= Len(b) /\ SubSeq(b, 1, Len(a)) = a

Exists(f, p) == p \in DOMAIN f
IsDirAt(f, p) == p \in DOMAIN f /\ f[p].kind = "dir"
Subtree(f, p) == {q \in DOMAIN f : IsPrefix(p, q)}
Children(f, p) == {q \in DOMAIN f : Len(q) = Len(p) + 1 /\ IsPrefix(p, q)}

DirEntry(mode, who) ==
  [kind |-> "dir", data |-> << >>, mode |-> mode, uid |-> who.uid, gid |-> who.gid]
FileEntry(data, mode, who) ==
  [kind |-> "file", data |-> data, mode |-> mode, uid |-> who.uid, gid |-> who.gid]

Put(f, p, e) == [q \in DOMAIN f \cup {p} |-> IF q = p THEN e ELSE f[q]]
Without(f, gone) == [q \in DOMAIN f \ gone |-> f[q]]

\* The errno of resolving p: "" when it exists.
LstatErr(f, p) ==
  LET q == Clean(p) IN
    IF Len(q) > MaxPathLen THEN "ENAMETOOLONG"
    ELSE IF q \in DOMAIN f THEN ""
    ELSE IF \E i \in 1 .. Len(q) - 1 :
              SubSeq(q, 1, i) \in DOMAIN f /\ f[SubSeq(q, 1, i)].kind # "dir"
      THEN "ENOTDIR"
    ELSE "ENOENT"

\* The errno of creating or opening for writing the entry p.
CreateErr(f, p) ==
  LET q == Clean(p) IN
    IF Len(q) > MaxPathLen THEN "ENAMETOOLONG"
    ELSE IF IsDirAt(f, Dir(q)) THEN ""
    ELSE IF Dir(q) \in DOMAIN f THEN "ENOTDIR"
    ELSE LstatErr(f, Dir(q))

\* An fsError; NoErr is the nil *fsError.
NoErr == [code |-> "", message |-> ""]
Generic(message) == [code |-> "ERR", message |-> message]

\* mapOsErr: the fsError for an error ("" is nil).  The operations below
\* return the error itself and their callers apply mapOsErr to it.
mapOsErr(err) ==
  CASE err \in {"EACCES", "EPERM"}
         -> [code |-> "EACCES", message |-> "permission denied"]
    [] err = "ENOENT"
         -> [code |-> "ENOENT", message |-> "no such file or directory"]
    [] err \in {"EEXIST", "ENOTEMPTY"}
         -> [code |-> "EEXIST", message |-> "destination already exists"]
    [] err = "" -> NoErr
    [] OTHER -> Generic(err)

RECURSIVE MkdirAllFrom(_, _, _, _, _)
MkdirAllFrom(f, q, i, mode, who) ==
  IF i > Len(q) THEN [fs |-> f, err |-> ""]
  ELSE LET pre == SubSeq(q, 1, i) IN
    IF pre \in DOMAIN f
      THEN IF f[pre].kind = "dir" THEN MkdirAllFrom(f, q, i + 1, mode, who)
           ELSE [fs |-> f, err |-> "ENOTDIR"]
      ELSE MkdirAllFrom(Put(f, pre, DirEntry(mode, who)), q, i + 1, mode, who)

\* os.MkdirAll: creates the missing directories of p; no error when p is
\* already a directory.
MkdirAll(f, p, mode, who) ==
  IF Len(Clean(p)) > MaxPathLen THEN [fs |-> f, err |-> "ENAMETOOLONG"]
  ELSE MkdirAllFrom(f, Clean(p), 1, mode, who)

\* name + " (n)": the number goes at the end of the last component.
Numbered(name, n) ==
  IF name = << >> THEN <<<<NumTok(n)>>>>
  ELSE [name EXCEPT ![Len(name)] = Append(@, NumTok(n))]

RECURSIVE MkdirTarget(_, _, _, _, _)
\* The loop of doMkdir: target is the candidate reached before round n.
MkdirTarget(f, parent, name, target, n) ==
  IF n > MaxCandidates THEN target
  ELSE IF LstatErr(f, target) = "ENOENT" THEN target
  ELSE MkdirTarget(f, parent, name, Join(parent, Numbered(name, n)), n + 1)

NewFolder == <<<<"New Folder">>>>

\* The outcome r of the system calls, with the path the operation reports.
WithPath(r, path) == [fs |-> r.fs, err |-> r.err, path |-> path]

doMkdir(f, parent, name, who, deny) ==
  LET nm == IF name = << >> THEN NewFolder ELSE name
      target == MkdirTarget(f, parent, nm, Join(parent, nm), 1)
  IN WithPath(IF deny THEN [fs |-> f, err |-> "EACCES"]
              ELSE MkdirAll(f, target, "755", who),
              target)

RECURSIVE UniqueFrom(_, _, _, _, _, _)
UniqueFrom(f, dstDir, name, ext, candidate, n) ==
  IF n > MaxCandidates THEN candidate
  ELSE IF LstatErr(f, candidate) = "ENOENT" THEN candidate
  ELSE UniqueFrom(f, dstDir, name, ext,
                  Join(dstDir, <<name \o <<NumTok(n)>> \o ext>>), n + 1)

uniqueDst(f, src, dstDir) ==
  LET base == Base(src) IN
    UniqueFrom(f, dstDir, TrimExt(base), Ext(base), Join(dstDir, <<base>>), 1)

\* copyFile: the destination is created or truncated and written.
copyFile(f, src, dst, who) ==
  IF CreateErr(f, dst) # "" THEN [fs |-> f, err |-> CreateErr(f, dst)]
  ELSE IF IsDirAt(f, dst) THEN [fs |-> f, err |-> "EISDIR"]
  ELSE IF dst \in DOMAIN f
    THEN [fs |-> [f EXCEPT ![dst].data = f[src].data], err |-> ""]
  ELSE [fs |-> Put(f, dst, FileEntry(f[src].data, f[src].mode, who)),
        err |-> ""]

RECURSIVE copyDir(_, _, _, _)
RECURSIVE CopyEntries(_, _, _, _, _)
RECURSIVE CopyRest(_, _, _, _, _)
RECURSIVE CopyInto(_, _, _, _)

\* The loop of copyDir over the entries read from src.
CopyEntries(f, src, dst, todo, who) ==
  IF todo = {} THEN [fs |-> f, err |-> ""]
  ELSE LET s == CHOOSE q \in todo : TRUE
           d == Append(dst, s[Len(s)])
       IN CopyRest(IF ~Exists(f, s) THEN [fs |-> f, err |-> "ENOENT"]
                   ELSE IF f[s].kind = "dir" THEN copyDir(f, s, d, who)
                   ELSE copyFile(f, s, d, who),
                   src, dst, todo \ {s}, who)

\* The loop goes on after entry outcome r unless that was an error.
CopyRest(r, src, dst, todo, who) ==
  IF r.err # "" THEN r ELSE CopyEntries(r.fs, src, dst, todo, who)

\* copyDir after its os.MkdirAll has ended with outcome made.
CopyInto(made, src, dst, who) ==
  IF made.err # "" THEN made
  ELSE CopyEntries(made.fs, src, dst, Children(made.fs, src), who)

copyDir(f, src, dst, who) ==
  CopyInto(MkdirAll(f, dst, f[src].mode, who), src, dst, who)

copyAll(f, src, dst, who) ==
  LET s == Clean(src)
      d == Clean(dst)
  IN IF LstatErr(f, s) # "" THEN [fs |-> f, err |-> LstatErr(f, s)]
     ELSE IF f[s].kind = "dir" THEN copyDir(f, s, d, who)
     ELSE copyFile(f, s, d, who)

\* doCopy once uniqueDst has chosen dst.
CopyTo(f, src, dst, who, deny) ==
  WithPath(IF deny THEN [fs |-> f, err |-> "EACCES"]
           ELSE copyAll(f, src, dst, who),
           dst)

doCopy(f, src, dstDir, who, deny) ==
  CopyTo(f, src, uniqueDst(f, src, dstDir), who, deny)

\* os.RemoveAll: the whole tree under p goes; a missing p is no error.
RemoveAll(f, p) == Without(f, Subtree(f, Clean(p)))

\* os.Rename within one filesystem, dst not existing.
Rename(f, src, dst) ==
  LET s == Clean(src)
      d == Clean(dst)
  IN IF LstatErr(f, s) # "" THEN [fs |-> f, err |-> LstatErr(f, s)]
     ELSE IF CreateErr(f, d) # "" THEN [fs |-> f, err |-> CreateErr(f, d)]
     ELSE IF IsPrefix(s, d) /\ s # d THEN [fs |-> f, err |-> "EINVAL"]
     ELSE IF s = d THEN [fs |-> f, err |-> ""]
     ELSE LET moved == Subtree(f, s)
              target(q) == d \o SubSeq(q, Len(s) + 1, Len(q))
              rest == Without(f, moved \cup Subtree(f, d))
          IN [fs |-> [q \in DOMAIN rest \cup {target(m) : m \in moved} |->
                        IF q \in DOMAIN rest THEN rest[q]
                        ELSE f[CHOOSE m \in moved : target(m) = q]],
              err |-> ""]

RemoveRegardless(c, src) == [fs |-> RemoveAll(c.fs, src), err |-> c.err]

\* The fallback of doMove after EXDEV: the source is removed when the copy
\* (outcome c) has succeeded.
RemoveCopied(c, src) ==
  IF c.err # "" THEN c ELSE [fs |-> RemoveAll(c.fs, src), err |-> ""]

MoveToUnchecked(f, src, dst, who, deny, xdev) ==
  IF deny THEN [fs |-> f, err |-> "EACCES", path |-> dst]
  ELSE WithPath(Rename(f, src, dst), dst)

\* doMove with dst the destination path.
MoveTo(f, src, dst, who, deny, xdev) ==
  IF LstatErr(f, dst) = "" THEN [fs |-> f, err |-> "EEXIST", path |-> dst]
  ELSE IF deny THEN [fs |-> f, err |-> "EACCES", path |-> dst]
  ELSE IF xdev /\ LstatErr(f, src) = "" /\ CreateErr(f, dst) = ""
    THEN WithPath(RemoveCopied(copyAll(f, src, dst, who), src), dst)
  ELSE WithPath(Rename(f, src, dst), dst)

doMove(f, src, dstDir, who, deny, xdev) ==
  MoveTo(f, src, Join(dstDir, <<Base(src)>>), who, deny, xdev)

RenameToUnchecked(f, path, dst, deny) ==
  IF deny THEN [fs |-> f, err |-> "EACCES", path |-> dst]
  ELSE WithPath(Rename(f, path, dst), dst)

\* doRename with dst the new path.
RenameTo(f, path, dst, deny) ==
  IF LstatErr(f, dst) = "" THEN [fs |-> f, err |-> "EEXIST", path |-> dst]
  ELSE IF deny THEN [fs |-> f, err |-> "EACCES", path |-> dst]
  ELSE WithPath(Rename(f, path, dst), dst)

doRename(f, path, newName, deny) ==
  RenameTo(f, path, Join(Dir(path), newName), deny)

\* A removal that reports a missing path as the error of looking it up.
doDeleteStrict(f, path, deny) ==
  IF LstatErr(f, path) # "" THEN [fs |-> f, err |-> LstatErr(f, path)]
  ELSE IF deny THEN [fs |-> f, err |-> "EACCES"]
  ELSE [fs |-> RemoveAll(f, path), err |-> ""]

\* os.RemoveAll returns nil for a path that is not there (ENOENT); a path
\* below a file (ENOTDIR) or longer than the kernel accepts is an error of
\* its unlink and is returned.
doDelete(f, path, deny) ==
  IF LstatErr(f, path) \in {"ENOTDIR", "ENAMETOOLONG"}
    THEN [fs |-> f, err |-> LstatErr(f, path)]
  ELSE IF deny /\ LstatErr(f, path) = "" THEN [fs |-> f, err |-> "EACCES"]
  ELSE [fs |-> RemoveAll(f, path), err |-> ""]

RECURSIVE AppendChunks(_, _, _, _)
\* The loop of doAssemble: chunk i and the following ones are appended.
AppendChunks(f, dest, chunks, i) ==
  IF i > Len(chunks) THEN [fs |-> f, err |-> ""]
  ELSE LET c == Clean(chunks[i]) IN
    IF LstatErr(f, c) # "" THEN [fs |-> f, err |-> (LstatErr(f, c))]
    ELSE IF f[c].kind = "dir" THEN [fs |-> f, err |-> "EISDIR"]
    ELSE AppendChunks([f EXCEPT ![dest].data = @ \o f[c].data],
                      dest, chunks, i + 1)

\* doAssemble: the destination is created or truncated first.
doAssemble(f, destFile, chunks, who, deny) ==
  LET d == Clean(destFile) IN
    IF deny THEN [fs |-> f, err |-> "EACCES"]
    ELSE IF CreateErr(f, d) # "" THEN [fs |-> f, err |-> (CreateErr(f, d))]
    ELSE IF IsDirAt(f, d) THEN [fs |-> f, err |-> "EISDIR"]
    ELSE AppendChunks(
           IF d \in DOMAIN f THEN [f EXCEPT ![d].data = << >>]
           ELSE Put(f, d, FileEntry(<< >>, "644", who)),
           d, chunks, 1)

\* strconv.ParseUint(modeStr, 8, 32) accepts these mode strings.
OctalModes == {"600", "644", "755"}

doChmod(f, path, modeStr, deny) ==
  IF modeStr \notin OctalModes THEN [fs |-> f, err |-> "invalid mode"]
  ELSE IF deny THEN [fs |-> f, err |-> "EACCES"]
  ELSE IF LstatErr(f, path) # "" THEN [fs |-> f, err |-> (LstatErr(f, path))]
  ELSE [fs |-> [f EXCEPT ![Clean(path)].mode = modeStr], err |-> ""]

\* strconv.Atoi on an owner or group string, -1 when it is no number.
Atoi(str) ==
  CASE str = "0" -> 0 [] str = "1000" -> 1000 [] str = "1001" -> 1001
    [] OTHER -> -1

\* user.LookupGroup: the groups of the account database.
GroupDb == [alice |-> 1000, bob |-> 1001, root |-> 0, sudo |-> 27]

doChown(f, path, ownerStr, groupStr, deny) ==
  LET uid == IF Atoi(ownerStr) >= 0 THEN Atoi(ownerStr)
             ELSE IF ownerStr \in DOMAIN passwd THEN passwd[ownerStr].uid
             ELSE -2
      gid == IF Atoi(groupStr) >= 0 THEN Atoi(groupStr)
             ELSE IF groupStr \in DOMAIN GroupDb THEN GroupDb[groupStr]
             ELSE -2
  IN IF uid = -2 THEN [fs |-> f, err |-> "unknown user"]
     ELSE IF gid = -2 THEN [fs |-> f, err |-> "unknown group"]
     ELSE IF deny THEN [fs |-> f, err |-> "EACCES"]
     ELSE IF LstatErr(f, path) # "" THEN [fs |-> f, err |-> (LstatErr(f, path))]
     ELSE [fs |-> [f EXCEPT ![Clean(path)].uid = uid, ![Clean(path)].gid = gid],
           err |-> ""]

(***************************************************************************)
(* Part 2.  State                                                          *)
(***************************************************************************)

VARIABLES
  tstate,    \* OS thread -> "pool" | "locked" | "retired"
  cred,      \* OS thread -> its credentials
  touched,   \* threads on which runAsUser has made a credential call
  ranAfter,  \* thread -> units scheduled on it after it was touched
  unit,      \* unit of work -> its request, position and results
  fs,        \* the filesystem
  msg,       \* stream message -> its subject and body
  queue,     \* stream message -> consumer state and number of deliveries
  cur,       \* the message the pull loop has fetched, 0 when it is fetching
  log,       \* stream message -> what its handlings did so far
  last,      \* what the latest handling of a stream message did
  sync,      \* what the latest request/reply handling did
  op,        \* the latest filesystem operation applied directly, its
             \* arguments, the filesystem before it and its outcome
  mkdirs,    \* the paths the successful mkdir calls have returned
  staged,    \* (destDir, uploadId, chunkIndex) -> the payload of the latest
             \* chunk write for it that the worker answered with ok
  backend,   \* the backend: its upload states, the chunk and cancel requests
             \* it is serving, the jobs it has published
  loop       \* the pull loop: where it stands, the outcome of its latest
             \* fetch, the messages whose handler is running

credVars == <<tstate, cred, touched, ranAfter, unit>>

taskVars == <<fs, msg, queue, cur, log, last, sync, op, mkdirs>>

restVars == <<passwd, staged, backend, loop>>

vars ==
  <<tstate, cred, touched, ranAfter, unit, fs, msg, queue, cur, log, last, sync,
    op, mkdirs, passwd, staged, backend, loop>>

(***************************************************************************)
(* Part 3.  The Privilege Context Executor                                 *)
(***************************************************************************)

\* Threads a credential call made on thread t applies to.  The worker is
\* built with Go >= 1.21 (install script), whose syscall.Setgroups,
\* syscall.Setresgid and syscall.Setresuid run the system call on every
\* thread of the process (syscall.AllThreadsSyscall, or the libc wrapper
\* under cgo), locked or not.
SyscallScope(t) == {x \in Threads : tstate[x] # "retired"}

\* What becomes of the locked thread when the goroutine of runAsUser exits:
\* UnlockOSThread is never called, so the runtime destroys the thread.
ThreadUnlockedAtExit == "pool"
ThreadAtExit == "retired"

NoCred == [euid |-> -1, egid |-> -1, groups |-> {}]

\* The goroutine of runAsUser exits on thread t.
Exit(t) ==
  /\ tstate' = [tstate EXCEPT ![t] = ThreadAtExit]
  /\ cred' = IF ThreadAtExit = "retired" THEN [cred EXCEPT ![t] = NoCred]
             ELSE cred

\* Every failing setup call sends its error and returns.
IgnoreSetupFailure == FALSE
AbortOnSetupFailure == TRUE

ApplyCred(t, field, value) ==
  [x \in Threads |->
     IF x \in SyscallScope(t)
       THEN IF field = "groups" THEN [cred[x] EXCEPT !.groups = value]
            ELSE IF field = "egid" THEN [cred[x] EXCEPT !.egid = value]
            ELSE [cred[x] EXCEPT !.euid = value]
       ELSE cred[x]]

\* A setup that drops the effective user id before the group id is set.
NextSetupPcUidFirst(step) ==
  CASE step = "setgroups" -> "setresuid"
    [] step = "setresuid" -> "setresgid"
    [] step = "setresgid" -> "fn"

NextSetupPc(step) ==
  CASE step = "setgroups" -> "setresgid"
    [] step = "setresgid" -> "setresuid"
    [] step = "setresuid" -> "fn"

\* The caller turns the result of withUser into its reply or job event: an
\* error becomes a failed reply (replyErr) or a failed event (toFsErr, Nak,
\* publishJobResult "failed").
ReportOf(ret) == IF ret = "ok" THEN "ok" ELSE "failed"

\* withUser: resolve, then run directly (uid 0) or through runAsUser.
\* chmod and chown never call withUser.
Begin(u) ==
  /\ unit[u].pc = "idle"
  /\ LET r == resolveUserCtx(unit[u].user) IN
       unit' = [unit EXCEPT ![u] =
         IF unit[u].kind = "direct"
           THEN [@ EXCEPT !.pc = "fn"]
         ELSE IF r.err
           THEN [@ EXCEPT !.pc = "done", !.ret = "lookuperr",
                          !.report = ReportOf("lookuperr")]
         ELSE IF r.ctx.uid = 0
           THEN [@ EXCEPT !.pc = "fn", !.ctx = r.ctx]
         ELSE [@ EXCEPT !.pc = "go", !.ctx = r.ctx, !.window = TRUE]]
  /\ UNCHANGED <<tstate, cred, touched, ranAfter>>
  /\ UNCHANGED <<taskVars, restVars>>

\* The pool threads the scheduler can put a goroutine on.  Pool threads that
\* no window has touched are interchangeable, so the lowest stands for them.
Schedulable(t) ==
  /\ tstate[t] = "pool"
  /\ t \in touched \/ \A x \in Threads :
                        (tstate[x] = "pool" /\ x \notin touched) => t <= x

\* go func() { runtime.LockOSThread() ...: the new goroutine is scheduled on
\* a thread of the pool and wires itself to it.
Lock(u, t) ==
  /\ unit[u].pc = "go"
  /\ Schedulable(t)
  /\ tstate' = [tstate EXCEPT ![t] = "locked"]
  /\ unit' = [unit EXCEPT ![u].pc = "setgroups", ![u].thr = t]
  /\ ranAfter' = IF t \in touched
                   THEN [ranAfter EXCEPT ![t] = @ \cup {u}] ELSE ranAfter
  /\ UNCHANGED <<cred, touched>>
  /\ UNCHANGED <<taskVars, restVars>>

\* A call made inside runAsUser, and whether it succeeded.
Called(step, ok) == [call |-> step, ok |-> ok]

\* One of the three setup calls of runAsUser, in the order of the code.
SetupCall(u, step, permitted, field, value) ==
  /\ unit[u].pc = step
  /\ LET t == unit[u].thr IN
     /\ touched' = touched \cup {t}
     /\ IF permitted
          THEN /\ cred' = ApplyCred(t, field, value)
               /\ unit' = [unit EXCEPT ![u].pc = NextSetupPc(step),
                                       ![u].calls = Append(@, Called(step, TRUE))]
               /\ UNCHANGED tstate
          ELSE IF AbortOnSetupFailure
            THEN /\ unit' = [unit EXCEPT ![u].pc = "done",
                                         ![u].failedAt = step,
                                         ![u].ret = "setuperr",
                                         ![u].report = ReportOf("setuperr"),
                                         ![u].calls = Append(@, Called(step, FALSE))]
                 /\ Exit(t)
            ELSE /\ unit' = [unit EXCEPT ![u].pc = NextSetupPc(step),
                                         ![u].failedAt = step,
                                         ![u].calls = Append(@, Called(step, FALSE))]
                 /\ UNCHANGED <<tstate, cred>>
  /\ UNCHANGED ranAfter
  /\ UNCHANGED <<taskVars, restVars>>

Setgroups(u) ==
  SetupCall(u, "setgroups", CanSetgroups(cred[unit[u].thr]),
            "groups", unit[u].ctx.gids)

Setresgid(u) ==
  SetupCall(u, "setresgid", CanSetresgid(cred[unit[u].thr], unit[u].ctx.gid),
            "egid", unit[u].ctx.gid)

Setresuid(u) ==
  SetupCall(u, "setresuid", CanSetresuid(cred[unit[u].thr], unit[u].ctx.uid),
            "euid", unit[u].ctx.uid)

\* err := fn() inside the privileged window, on the locked thread.
FnWindow(u, ok) ==
  /\ unit[u].pc = "fn"
  /\ unit[u].window
  /\ unit' = [unit EXCEPT ![u].pc = "restoreuid",
                          ![u].ran = TRUE,
                          ![u].observed = @ \cup {cred[unit[u].thr].euid},
                          ![u].fnres = IF ok THEN "ok" ELSE "fnerr",
                          ![u].calls = Append(@, Called("fn", ok))]
  /\ UNCHANGED <<tstate, cred, touched, ranAfter>>
  /\ UNCHANGED <<taskVars, restVars>>

\* fn() run directly by the handler goroutine, on whichever pool thread the
\* scheduler runs it.
FnDirect(u, t, ok) ==
  /\ unit[u].pc = "fn"
  /\ ~unit[u].window
  /\ Schedulable(t)
  /\ unit' = [unit EXCEPT ![u].pc = "done",
                          ![u].ran = TRUE,
                          ![u].observed = @ \cup {cred[t].euid},
                          ![u].fnres = IF ok THEN "ok" ELSE "fnerr",
                          ![u].ret = IF ok THEN "ok" ELSE "fnerr",
                          ![u].report = ReportOf(IF ok THEN "ok" ELSE "fnerr")]
  /\ ranAfter' = IF t \in touched
                   THEN [ranAfter EXCEPT ![t] = @ \cup {u}] ELSE ranAfter
  /\ UNCHANGED <<tstate, cred, touched>>
  /\ UNCHANGED <<taskVars, restVars>>

\* The three restore calls; their results are discarded.
RestoreCall(u, step, next, permitted, field, value) ==
  /\ unit[u].pc = step
  /\ cred' = IF permitted THEN ApplyCred(unit[u].thr, field, value) ELSE cred
  /\ unit' = [unit EXCEPT ![u].pc = next,
                          ![u].calls = Append(@, Called(step, permitted))]
  /\ UNCHANGED <<tstate, touched, ranAfter>>
  /\ UNCHANGED <<taskVars, restVars>>

RestoreUid(u) ==
  RestoreCall(u, "restoreuid", "restoregid",
              CanSetresuid(cred[unit[u].thr], 0), "euid", 0)

RestoreGid(u) ==
  RestoreCall(u, "restoregid", "restoregroups",
              CanSetresgid(cred[unit[u].thr], 0), "egid", 0)

RestoreGroups(u) ==
  RestoreCall(u, "restoregroups", "send",
              CanSetgroups(cred[unit[u].thr]), "groups", {0})

\* ch <- err; the goroutine exits, runAsUser returns <-ch and the caller
\* reports the result.
Return(u) ==
  /\ unit[u].pc = "send"
  /\ unit' = [unit EXCEPT ![u].pc = "done",
                          ![u].ret = unit[u].fnres,
                          ![u].retCred = cred[unit[u].thr],
                          ![u].report = ReportOf(unit[u].fnres)]
  /\ Exit(unit[u].thr)
  /\ UNCHANGED <<touched, ranAfter>>
  /\ UNCHANGED <<taskVars, restVars>>

InitUnit(kind, user) ==
  [kind |-> kind, user |-> user, pc |-> "idle", ctx |-> RootCtx,
   window |-> FALSE, thr |-> 0, observed |-> {}, ran |-> FALSE,
   fnres |-> "none", failedAt |-> "none", ret |-> "none",
   retCred |-> NoCred, report |-> "none", calls |-> << >>]

UnitKinds == {"withUser", "direct"}

\* Units are interchangeable: one representative of every multiset of
\* requests is enough, the one listing them in this order.
RequestRank(r) ==
  CASE r.kind = "direct" -> 0
    [] r.user = ""       -> 1
    [] r.user = "alice"  -> 2
    [] r.user = "bob"    -> 3
    [] OTHER             -> 4

InitCredUnits ==
  /\ tstate = [t \in Threads |-> "pool"]
  /\ cred = [t \in Threads |-> RootCred]
  /\ touched = {}
  /\ ranAfter = [t \in Threads |-> {}]
  /\ unit \in {f \in [Units -> {InitUnit(k, n) : k \in UnitKinds, n \in Usernames}] :
                 /\ \A u \in Units : f[u].kind = "direct" => f[u].user = ""
                 /\ \A u, v \in Units :
                      u < v => RequestRank(f[u]) <= RequestRank(f[v])}

NextCred ==
  \E u \in Units :
    \/ Begin(u)
    \/ \E t \in Threads : Lock(u, t)
    \/ Setgroups(u)
    \/ Setresgid(u)
    \/ Setresuid(u)
    \/ \E ok \in BOOLEAN : FnWindow(u, ok)
    \/ \E t \in Threads, ok \in BOOLEAN : FnDirect(u, t, ok)
    \/ RestoreUid(u)
    \/ RestoreGid(u)
    \/ RestoreGroups(u)
    \/ Return(u)


(***************************************************************************)
(* Part 4.  Task messages, handleTask and the request/reply handlers       *)
(***************************************************************************)

\* Messages in the stream.
NumMsgs == 2

Msgs == 1 .. NumMsgs

\* nats.MaxDeliver(3) of the pull consumer.
MaxDeliverOffByOne == 3 + 1
MaxDeliver == 3

taskSubjects ==
  { "nasx.root.fs.mkdir", "nasx.root.fs.copy", "nasx.root.fs.move",
    "nasx.root.fs.rename", "nasx.root.fs.delete", "nasx.root.fs.assemble",
    "nasx.root.fs.chmod", "nasx.root.fs.chown" }

\* The identity of a handling in which fn did not run.
NoIdentity == [uid |-> -1, gid |-> -1, gids |-> {}]

\* What withUser does before fn runs.  trace lists the side effects in the
\* order they happen: "lookup" (account database), "setcred" (credential
\* calls of runAsUser).  setupOk tells whether the setup calls succeed.
withUser(username, setupOk) ==
  LET r == resolveUserCtx(username)
      looked == IF username = "" THEN << >> ELSE <<"lookup">>
  IN IF r.err
       THEN [run |-> FALSE, err |-> r.msg, who |-> RootCtx,
             trace |-> looked]
     ELSE IF r.ctx.uid = 0
       THEN [run |-> TRUE, err |-> "", who |-> r.ctx, trace |-> looked]
     ELSE IF ~setupOk
       THEN [run |-> FALSE, err |-> "setgroups: operation not permitted",
             who |-> r.ctx, trace |-> looked \o <<"setcred">>]
     ELSE [run |-> TRUE, err |-> "", who |-> r.ctx,
           trace |-> looked \o <<"setcred">>]

RECURSIVE validatePathsFrom(_, _)
validatePathsFrom(paths, i) ==
  IF i > Len(paths) THEN NoErr
  ELSE IF validatePath(paths[i]) # "" THEN Generic(validatePath(paths[i]))
  ELSE validatePathsFrom(paths, i + 1)

\* validatePaths: the error of the first path that is not accepted.
validatePaths(paths) == validatePathsFrom(paths, 1)

\* toFsErr: an *fsError is passed on, any other error becomes Generic.
toFsErr(err) == Generic(err)

\* A branch of handleTask that runs op under withUser: the outcome of the
\* branch given the outcome r of the operation, were it to run.  The result
\* of the job is the path the operation reports, or ok.
UnderUser(f, w, r, hasPath) ==
  IF ~w.run
    THEN [fs |-> f, fsErr |-> toFsErr(w.err), result |-> "nil",
          trace |-> w.trace, ran |-> NoIdentity, errno |-> ""]
  ELSE [fs |-> r.fs, fsErr |-> mapOsErr(r.err),
        result |-> IF r.err # "" THEN "nil"
                   ELSE IF hasPath THEN r.path ELSE "ok",
        trace |-> w.trace \o <<"fs">>, ran |-> w.who, errno |-> r.err]

\* chmod and chown run as root, without withUser.
AsRoot(r) ==
  [fs |-> r.fs, fsErr |-> mapOsErr(r.err),
   result |-> IF r.err = "" THEN "ok" ELSE "nil", trace |-> <<"fs">>,
   ran |-> RootCtx, errno |-> r.err]

Rejected(f, fsErr) ==
  [fs |-> f, fsErr |-> fsErr, result |-> "nil", trace |-> << >>,
   ran |-> NoIdentity, errno |-> ""]

\* The end of the assemble branch: after a success u the staging directory
\* is removed, if one is given and validatePath accepts it.  The error of
\* os.RemoveAll is discarded: when the removal fails (rmFails) the branch
\* goes on as if it had not.
CleanUp(u, stagingDir, rmFails) ==
  IF u.fsErr = NoErr /\ stagingDir # << >> /\ validatePath(stagingDir) = ""
       /\ ~rmFails
    THEN [u EXCEPT !.fs = RemoveAll(u.fs, stagingDir)]
    ELSE u

\* The paths each branch of handleTask validates before anything else.
ValidatedPaths(subject, task) ==
  CASE subject = "nasx.root.fs.mkdir"    -> <<task.parentPath>>
    [] subject = "nasx.root.fs.copy"     -> <<task.src, task.dstDir>>
    [] subject = "nasx.root.fs.move"     -> <<task.src, task.dstDir>>
    [] subject = "nasx.root.fs.rename"   -> <<task.path>>
    [] subject = "nasx.root.fs.delete"   -> <<task.path>>
    [] subject = "nasx.root.fs.assemble" -> <<task.destFile>> \o task.chunks
    [] subject = "nasx.root.fs.chmod"    -> <<task.path>>
    [] subject = "nasx.root.fs.chown"    -> <<task.path>>
    [] OTHER -> << >>

\* The branches of the switch once the paths are validated; w is what
\* withUser does for the task's account.
Branch(f, subject, task, env, w) ==
  CASE subject = "nasx.root.fs.mkdir" ->
         UnderUser(f, w, doMkdir(f, task.parentPath, task.name, w.who, env.deny),
                   TRUE)
    [] subject = "nasx.root.fs.copy" ->
         UnderUser(f, w, doCopy(f, task.src, task.dstDir, w.who, env.deny), TRUE)
    [] subject = "nasx.root.fs.move" ->
         UnderUser(f, w, doMove(f, task.src, task.dstDir, w.who, env.deny,
                                env.xdev), TRUE)
    [] subject = "nasx.root.fs.rename" ->
         UnderUser(f, w, doRename(f, task.path, task.newName, env.deny), TRUE)
    [] subject = "nasx.root.fs.delete" ->
         UnderUser(f, w, doDelete(f, task.path, env.deny), FALSE)
    [] subject = "nasx.root.fs.assemble" ->
         CleanUp(UnderUser(f, w, doAssemble(f, task.destFile, task.chunks,
                                            w.who, env.deny), FALSE),
                 task.stagingDir, env.rmFails)
    [] subject = "nasx.root.fs.chmod" ->
         AsRoot(doChmod(f, task.path, task.mode, env.deny))
    [] subject = "nasx.root.fs.chown" ->
         AsRoot(doChown(f, task.path, task.owner, task.group, env.deny))

\* The switch of handleTask for a decoded task of a known subject.
\* env: setupOk (the setup calls of runAsUser succeed), deny (the
\* filesystem refuses the operation), xdev (source and destination are on
\* different devices), rmFails (the staging directory cannot be removed).
RunTask(f, subject, task, env) ==
  IF validatePaths(ValidatedPaths(subject, task)) # NoErr
    THEN Rejected(f, validatePaths(ValidatedPaths(subject, task)))
    ELSE Branch(f, subject, task, env, withUser(task.linuxUsername, env.setupOk))

publishJobResultNoId(jobId, status, result, errMsg) ==
  [subject |-> <<"nasx.events.job", "">>, jobId |-> "",
   status |-> status, result |-> result, error |-> errMsg]

\* publishJobResult: the event and the subject it is published on.
publishJobResult(jobId, status, result, errMsg) ==
  [subject |-> <<"nasx.events.job", jobId>>, jobId |-> jobId,
   status |-> status, result |-> result, error |-> errMsg]

\* The acknowledgement handleTask sends for an undecodable body or an
\* unknown subject.
NakMalformed == "nak"
TermMalformed == "term"

ConcludeAlwaysAck(task, r) ==
  [ack |-> "ack", fs |-> r.fs, fsErr |-> r.fsErr, trace |-> r.trace,
   ran |-> r.ran, errno |-> r.errno,
   events |-> <<publishJobResult(task.jobId, "completed", r.result, "")>>]

\* The last lines of handleTask: Nak and a failed event, or Ack and a
\* completed event.
Conclude(task, r) ==
  IF r.fsErr # NoErr
    THEN [ack |-> "nak", fs |-> r.fs, fsErr |-> r.fsErr, trace |-> r.trace,
          ran |-> r.ran, errno |-> r.errno,
          events |-> <<publishJobResult(task.jobId, "failed", "nil",
                                        r.fsErr.message)>>]
    ELSE [ack |-> "ack", fs |-> r.fs, fsErr |-> r.fsErr, trace |-> r.trace,
          ran |-> r.ran, errno |-> r.errno,
          events |-> <<publishJobResult(task.jobId, "completed", r.result, "")>>]

\* handleTask: what one handling of message m does.
handleTask(f, m, env) ==
  IF ~m.decodable \/ m.subject \notin taskSubjects
    THEN [ack |-> TermMalformed, fs |-> f, fsErr |-> NoErr, trace |-> << >>,
          ran |-> NoIdentity, errno |-> "", events |-> << >>]
    ELSE Conclude(m.task, RunTask(f, m.subject, m.task, env))

(***************************************************************************)
(* Request/reply handlers                                                  *)
(***************************************************************************)

\* Bytes doRead returns at most (64 MiB in the worker).
MaxReadBytes == 2

\* nc.Publish(replySubject, data): the messages a call puts on the reply
\* subject.
PublishNothing(reply) == << >>
Publish(reply) == <<reply>>

replyOk(result) == [raw |-> FALSE, ok |-> TRUE, result |-> result,
                    error |-> "", code |-> ""]
replyErr(e) == [raw |-> FALSE, ok |-> FALSE, result |-> "nil",
                error |-> e.message, code |-> e.code]
\* handleRead publishes the bytes themselves.
replyRaw(data) == [raw |-> TRUE, ok |-> TRUE, result |-> data,
                   error |-> "", code |-> ""]

doList(f, dir, deny) ==
  LET d == Clean(dir) IN
    IF deny THEN [err |-> "EACCES", result |-> "nil"]
    ELSE IF LstatErr(f, d) # "" THEN [err |-> LstatErr(f, d), result |-> "nil"]
    ELSE IF f[d].kind # "dir" THEN [err |-> "ENOTDIR", result |-> "nil"]
    ELSE [err |-> "",
          result |-> {[name |-> q[Len(q)], path |-> q, type |-> f[q].kind,
                       size |-> IF f[q].kind = "dir" THEN -1 ELSE Len(f[q].data)] :
                      q \in Children(f, d)}]

doStat(f, path, deny) ==
  LET q == Clean(path) IN
    IF deny THEN [err |-> "EACCES", result |-> "nil"]
    ELSE IF LstatErr(f, q) # "" THEN [err |-> LstatErr(f, q), result |-> "nil"]
    ELSE [err |-> "",
          result |-> [mode |-> f[q].mode, uid |-> f[q].uid, gid |-> f[q].gid,
                      type |-> f[q].kind,
                      size |-> IF f[q].kind = "dir" THEN -1 ELSE Len(f[q].data)]]

\* A doRead that returns the whole file.
doReadUnlimited(f, path, deny) ==
  LET q == Clean(path) IN
    IF deny THEN [err |-> "EACCES", result |-> "nil"]
    ELSE IF LstatErr(f, q) # "" THEN [err |-> LstatErr(f, q), result |-> "nil"]
    ELSE IF f[q].kind = "dir" THEN [err |-> "EISDIR", result |-> "nil"]
    ELSE [err |-> "", result |-> f[q].data]

doRead(f, path, deny) ==
  LET q == Clean(path) IN
    IF deny THEN [err |-> "EACCES", result |-> "nil"]
    ELSE IF LstatErr(f, q) # "" THEN [err |-> LstatErr(f, q), result |-> "nil"]
    ELSE IF f[q].kind = "dir" THEN [err |-> "EISDIR", result |-> "nil"]
    ELSE [err |-> "",
          result |-> SubSeq(f[q].data, 1,
                            IF Len(f[q].data) < MaxReadBytes THEN Len(f[q].data)
                            ELSE MaxReadBytes)]

\* handleList, handleStat and handleRead differ in the operation and in how
\* the result is sent.
handlePathRequest(f, kind, req, env) ==
  LET w == withUser(req.linuxUsername, env.setupOk)
      r == CASE kind = "list" -> doList(f, req.path, env.deny)
             [] kind = "stat" -> doStat(f, req.path, env.deny)
             [] OTHER         -> doRead(f, req.path, env.deny)
  IN IF ~req.decodable
       THEN [fs |-> f,
             sent |-> Publish(replyErr(Generic("json: cannot unmarshal"))),
             trace |-> << >>, ran |-> NoIdentity, errno |-> ""]
     ELSE IF validatePath(req.path) # ""
       THEN [fs |-> f,
             sent |-> Publish(replyErr(Generic(validatePath(req.path)))),
             trace |-> << >>, ran |-> NoIdentity, errno |-> ""]
     ELSE IF ~w.run
       THEN [fs |-> f, sent |-> Publish(replyErr(Generic(w.err))),
             trace |-> w.trace, ran |-> NoIdentity,
             errno |-> ""]
     ELSE IF r.err # ""
       THEN [fs |-> f, sent |-> Publish(replyErr(mapOsErr(r.err))),
             trace |-> w.trace \o <<"fs">>, ran |-> w.who, errno |-> r.err]
     ELSE [fs |-> f,
           sent |-> Publish(IF kind = "read" THEN replyRaw(r.result)
                            ELSE replyOk(r.result)),
           trace |-> w.trace \o <<"fs">>, ran |-> w.who, errno |-> ""]

\* strconv of the chunk index in "%d.part".
IndexTok(i) == <<"0", "1", "2", "3">>[i + 1]

\* ".nasx-uploads-" + uploadId.  The id is a string like any other: it is
\* kept as the sequence of its components, and the prefix joins the first.
StagingName(uploadId) ==
  IF uploadId = << >> THEN <<<<".nasx-uploads-">>>>
  ELSE <<<<".nasx-uploads-">> \o Head(uploadId)>> \o Tail(uploadId)

stagingDirOf(meta) == Join(meta.destDir, StagingName(meta.uploadId))
chunkPathOf(meta) ==
  Join(stagingDirOf(meta), <<<<IndexTok(meta.chunkIndex), ".part">>>>)

\* os.WriteFile: creates or truncates the file and writes the data.
WriteFile(f, p, data, who) ==
  LET q == Clean(p) IN
    IF CreateErr(f, q) # "" THEN [fs |-> f, err |-> CreateErr(f, q)]
    ELSE IF IsDirAt(f, q) THEN [fs |-> f, err |-> "EISDIR"]
    ELSE IF q \in DOMAIN f THEN [fs |-> [f EXCEPT ![q].data = data], err |-> ""]
    ELSE [fs |-> Put(f, q, FileEntry(data, "644", who)), err |-> ""]

handleWriteChunk(f, req, env) ==
  LET meta == req.meta
      w == withUser(meta.linuxUsername, env.setupOk)
      made == IF env.deny THEN [fs |-> f, err |-> "EACCES"]
              ELSE MkdirAll(f, stagingDirOf(meta), "755", w.who)
      wrote == IF made.err # "" THEN made
               ELSE WriteFile(made.fs, chunkPathOf(meta), req.data, w.who)
  IN IF ~req.hasMeta
       THEN [fs |-> f,
             sent |-> Publish(replyErr(Generic("missing X-Meta header"))),
             trace |-> << >>, ran |-> NoIdentity, errno |-> ""]
     ELSE IF ~req.decodable
       THEN [fs |-> f, sent |-> Publish(replyErr(Generic("bad X-Meta"))),
             trace |-> << >>, ran |-> NoIdentity, errno |-> ""]
     ELSE IF validatePath(meta.destDir) # ""
       THEN [fs |-> f,
             sent |-> Publish(replyErr(Generic(validatePath(meta.destDir)))),
             trace |-> << >>, ran |-> NoIdentity, errno |-> ""]
     ELSE IF ~w.run
       THEN [fs |-> f, sent |-> Publish(replyErr(toFsErr(w.err))),
             trace |-> w.trace, ran |-> NoIdentity,
             errno |-> ""]
     ELSE IF wrote.err # ""
       THEN [fs |-> wrote.fs, sent |-> Publish(replyErr(toFsErr(wrote.err))),
             trace |-> w.trace \o <<"fs">>, ran |-> w.who,
             errno |-> wrote.err]
     ELSE [fs |-> wrote.fs, sent |-> Publish(replyOk("ok")),
           trace |-> w.trace \o <<"fs">>, ran |-> w.who, errno |-> ""]

(***************************************************************************)
(* The inputs: a filesystem, task messages and requests                    *)
(***************************************************************************)

Abs(comps) == Root \o comps

DirD == Abs(<<<<"d">>>>)
DirE == Abs(<<<<"e">>>>)
FileF == Abs(<<<<"d">>, <<"f", ".txt">>>>)
DirSub == Abs(<<<<"d">>, <<"sub">>>>)
FileG == Abs(<<<<"d">>, <<"sub">>, <<"g">>>>)
Staging == Abs(<<<<"d">>, <<".nasx-uploads-", "u1">>>>)
Chunk0 == Staging \o <<<<"0", ".part">>>>
Chunk1 == Staging \o <<<<"1", ".part">>>>
FileOut == Abs(<<<<"d">>, <<"out">>>>)
Missing == Abs(<<<<"d">>, <<"nope">>>>)
\* Paths validatePath rejects: relative, holding a NUL byte.
RelPath == <<<<"d">>, <<"f", ".txt">>>>
NulPath == Abs(<<<<"d">>, <<"f", Nul>>>>)
RelStaging == <<<<".nasx-uploads-", "u1">>>>

Alice == [uid |-> 1000, gid |-> 1000]

InitFs ==
  LET rootDir == DirEntry("755", RootCtx) IN
    [q \in {Root, DirD, DirE, FileF, DirSub, FileG, Staging, Chunk0, Chunk1} |->
       CASE q = FileF  -> FileEntry(<<1, 2>>, "644", Alice)
         [] q = FileG  -> FileEntry(<<3>>, "644", Alice)
         [] q = Chunk0 -> FileEntry(<<4>>, "644", Alice)
         [] q = Chunk1 -> FileEntry(<<5, 6>>, "644", Alice)
         [] q \in {DirD, DirE, DirSub} -> DirEntry("755", Alice)
         [] OTHER -> rootDir]

\* The zero taskMsg: json.Unmarshal leaves absent fields empty.
ZeroTask ==
  [jobId |-> "", linuxUsername |-> "", path |-> << >>, parentPath |-> << >>,
   name |-> << >>, src |-> << >>, dstDir |-> << >>, newName |-> << >>,
   destFile |-> << >>, chunks |-> << >>, stagingDir |-> << >>,
   mode |-> "", owner |-> "", group |-> ""]

Message(subject, task) == [decodable |-> TRUE, subject |-> subject, task |-> task]

MkdirMsg(user, parent, name) ==
  Message("nasx.root.fs.mkdir",
          [ZeroTask EXCEPT !.linuxUsername = user, !.parentPath = parent,
                           !.name = name])
CopyMsg(user, src, dstDir) ==
  Message("nasx.root.fs.copy",
          [ZeroTask EXCEPT !.linuxUsername = user, !.src = src, !.dstDir = dstDir])
MoveMsg(user, src, dstDir) ==
  Message("nasx.root.fs.move",
          [ZeroTask EXCEPT !.linuxUsername = user, !.src = src, !.dstDir = dstDir])
RenameMsg(user, path, newName) ==
  Message("nasx.root.fs.rename",
          [ZeroTask EXCEPT !.linuxUsername = user, !.path = path,
                           !.newName = newName])
DeleteMsg(user, path) ==
  Message("nasx.root.fs.delete",
          [ZeroTask EXCEPT !.linuxUsername = user, !.path = path])
AssembleMsg(user, destFile, chunks, stagingDir) ==
  Message("nasx.root.fs.assemble",
          [ZeroTask EXCEPT !.linuxUsername = user, !.destFile = destFile,
                           !.chunks = chunks, !.stagingDir = stagingDir])
ChmodMsg(path, mode) ==
  Message("nasx.root.fs.chmod", [ZeroTask EXCEPT !.path = path, !.mode = mode])
ChownMsg(path, owner, group) ==
  Message("nasx.root.fs.chown",
          [ZeroTask EXCEPT !.path = path, !.owner = owner, !.group = group])

Photos == <<<<"Photos">>>>

MessageSamples ==
  << MkdirMsg("alice", DirD, Photos), MkdirMsg("", DirE, << >>),
     MkdirMsg("alice", RelPath, Photos), MkdirMsg("ghost", DirD, Photos),
     CopyMsg("alice", FileF, DirE), CopyMsg("bob", FileF, NulPath),
     MoveMsg("alice", FileF, DirE), MoveMsg("", DirSub, DirE),
     RenameMsg("alice", FileF, <<<<"h">>>>),
     DeleteMsg("alice", DirSub), DeleteMsg("", Missing),
     AssembleMsg("alice", FileOut, <<Chunk0, Chunk1>>, Staging),
     AssembleMsg("alice", FileOut, <<Chunk0, Chunk1>>, RelStaging),
     AssembleMsg("alice", FileOut, <<Chunk0, NulPath>>, Staging),
     ChmodMsg(FileF, "600"), ChmodMsg(FileF, "rw-"),
     ChownMsg(FileF, "bob", "sudo"), ChownMsg(NulPath, "1001", "1001"),
     \* a body json.Unmarshal rejects, and a subject outside the switch
     [MkdirMsg("alice", DirD, Photos) EXCEPT !.decodable = FALSE],
     [DeleteMsg("alice", DirSub) EXCEPT !.subject = "nasx.root.fs.list"] >>

\* The job id the backend gives the m-th job.
JobIdOf(m) == <<"j1", "j2", "j3", "j4">>[m]

WithJobId(message, m) == [message EXCEPT !.task.jobId = JobIdOf(m)]

PathRequest(user, path) == [decodable |-> TRUE, linuxUsername |-> user, path |-> path]

PathRequestSamples ==
  { PathRequest("alice", DirD), PathRequest("", FileF), PathRequest("bob", Missing),
    PathRequest("ghost", DirD), PathRequest("alice", RelPath),
    PathRequest("", NulPath), PathRequest("alice", << >>),
    [PathRequest("alice", DirD) EXCEPT !.decodable = FALSE] }

ChunkRequest(user, destDir, uploadId, index, data) ==
  [hasMeta |-> TRUE, decodable |-> TRUE, data |-> data,
   meta |-> [uploadId |-> uploadId, chunkIndex |-> index, destDir |-> destDir,
             linuxUsername |-> user]]

\* Upload ids: two plain ones, and "u2/.", which names the staging
\* directory of u2.
U1 == <<<<"u1">>>>
U2 == <<<<"u2">>>>
U2Dot == <<<<"u2">>, Dot>>

ChunkRequestSamples ==
  { ChunkRequest("alice", DirE, U2, 0, <<7>>),
    ChunkRequest("alice", DirE, U2, 1, <<8, 9>>),
    ChunkRequest("alice", DirE, U2, 0, <<9>>),
    ChunkRequest("", DirD, U1, 1, <<7>>),
    ChunkRequest("ghost", DirE, U2, 0, <<7>>),
    ChunkRequest("alice", RelPath, U2, 0, <<7>>),
    ChunkRequest("bob", NulPath, U2, 0, <<7>>),
    ChunkRequest("alice", FileF, U2, 0, <<7>>),
    ChunkRequest("alice", DirE, U2Dot, 0, <<5>>),
    [ChunkRequest("alice", DirE, U2, 0, <<7>>) EXCEPT !.hasMeta = FALSE],
    [ChunkRequest("alice", DirE, U2, 0, <<7>>) EXCEPT !.decodable = FALSE] }

\* What the environment does to one handling: nothing, a failing setup
\* call of runAsUser, a filesystem that refuses, a rename across devices.
Envs ==
  { [setupOk |-> TRUE,  deny |-> FALSE, xdev |-> FALSE, rmFails |-> FALSE],
    [setupOk |-> FALSE, deny |-> FALSE, xdev |-> FALSE, rmFails |-> FALSE],
    [setupOk |-> TRUE,  deny |-> TRUE,  xdev |-> FALSE, rmFails |-> FALSE],
    [setupOk |-> TRUE,  deny |-> FALSE, xdev |-> TRUE,  rmFails |-> FALSE] }

(***************************************************************************)
(* The pull consumer and the pull loop                                     *)
(***************************************************************************)

\* sub.Fetch(1): the consumer hands over a message that is neither
\* acknowledged nor terminated and has deliveries left.
Fetch(m) ==
  /\ cur = 0
  /\ queue[m].state = "pending"
  /\ queue[m].deliveries < MaxDeliver
  /\ queue' = [queue EXCEPT ![m].deliveries = @ + 1]
  /\ cur' = m
  /\ UNCHANGED <<fs, msg, log, last, sync, op, mkdirs>>
  /\ UNCHANGED <<credVars, restVars>>

\* The consumer state after the handler's acknowledgement.  An Ack removes
\* the message unless it is lost (it does not reach the server before the
\* ack wait expires), a Nak leaves it for redelivery, a Term ends it.
AfterAck(ack, ackLost) ==
  CASE ack = "ack"  -> IF ackLost THEN "pending" ELSE "acked"
    [] ack = "term" -> "termed"
    [] OTHER        -> "pending"

\* for _, msg := range msgs { handleTask(nc, msg) }
\* last records the handling; log[m] keeps of message m the status of its
\* last event and the filesystem its first successful execution left.
\* last.redo: the job had succeeded before and the filesystem is still as
\* that execution left it.
Handled(h, ackLost) ==
  /\ fs' = h.fs
  /\ queue' = [queue EXCEPT ![cur].state = AfterAck(h.ack, ackLost)]
  /\ last' = [m |-> cur, ack |-> h.ack, events |-> h.events,
              fsErr |-> h.fsErr, trace |-> h.trace,
              changed |-> h.fs # fs,
              redo |-> log[cur].okAfter = {fs}]
  /\ log' = [log EXCEPT
               ![cur].status = IF h.events = << >> THEN @
                               ELSE h.events[Len(h.events)].status,
               ![cur].okAfter = IF h.ack = "ack" /\ @ = {} THEN {h.fs}
                                ELSE @]

HandleTask(env, ackLost) ==
  /\ cur # 0
  /\ Handled(handleTask(fs, msg[cur], env), ackLost)
  /\ cur' = 0
  /\ UNCHANGED <<msg, sync, op, mkdirs>>
  /\ UNCHANGED <<credVars, restVars>>

NoAttempt ==
  [m |-> 0, ack |-> "none", events |-> << >>, fsErr |-> NoErr, trace |-> << >>,
   changed |-> FALSE, redo |-> FALSE]

NoLog == [status |-> "none", okAfter |-> {}]

\* No operation applied yet.
NoOp == [kind |-> "none", n |-> 0]

NoSync ==
  [kind |-> "none", req |-> "none", sent |-> << >>, trace |-> << >>,
   changed |-> FALSE, ran |-> NoIdentity, errno |-> ""]

\* No chunk has been staged.
NoStaged == [k \in {} |-> << >>]

\* The key of a chunk in staged.
StagedKey(meta) ==
  [destDir |-> meta.destDir, uploadId |-> meta.uploadId,
   chunkIndex |-> meta.chunkIndex]

\* The reply {"ok": true} was sent.
RepliedOk(sent) == sent # << >> /\ sent[1].ok

\* The backend has no upload, serves no request and has published no job:
\* uploadState maps an upload id to its UploadState object, objects holds
\* the UploadState objects by their identity, reqs the requests received
\* and events what has reached the worker and which cancels were answered;
\* download is the answer of the latest download, ledger the job table
\* (status by job id), inbox the job events received and not yet applied,
\* restarts the number of times the backend was started again.
\* The clock of the backend and what its upload GC has done: the uploads
\* created, the calls of onStale per upload, the evictions.
NoGc == [now |-> 0, advances |-> 0, serial |-> 0, calls |-> << >>,
         evictions |-> {}]

NoBackend ==
  [uploadState |-> << >>, objects |-> << >>, reqs |-> << >>, events |-> {},
   download |-> [status |-> 0, body |-> << >>, asked |-> FALSE],
   ledger |-> << >>, inbox |-> << >>, restarts |-> 0, gc |-> NoGc]

\* The pull loop is about to fetch for the first time.
NoLoop == [pc |-> "fetch", err |-> "none", slept |-> 0, running |-> {}]

InitRest ==
  /\ passwd = PasswdDb
  /\ staged = NoStaged
  /\ backend = NoBackend
  /\ loop = NoLoop

HandlePathRequest(kind, req, env) ==
  /\ LET h == handlePathRequest(fs, kind, req, env) IN
       sync' = [kind |-> kind, req |-> req, sent |-> h.sent, trace |-> h.trace,
                changed |-> FALSE, ran |-> h.ran, errno |-> h.errno]
  /\ UNCHANGED <<fs, msg, queue, cur, log, last, op, mkdirs>>
  /\ UNCHANGED <<credVars, restVars>>

HandleWriteChunk(req, env) ==
  /\ LET h == handleWriteChunk(fs, req, env) IN
       /\ sync' = [kind |-> "write-chunk", req |-> req, sent |-> h.sent,
                   trace |-> h.trace, changed |-> h.fs # fs, ran |-> h.ran,
                   errno |-> h.errno]
       /\ fs' = h.fs
       /\ staged' = IF RepliedOk(h.sent)
                      THEN (StagedKey(req.meta) :> req.data) @@ staged
                      ELSE staged
  /\ UNCHANGED <<msg, queue, cur, log, last, op, mkdirs>>
  /\ UNCHANGED <<credVars, passwd, backend, loop>>

InitIdleCred ==
  /\ tstate = [t \in Threads |-> "pool"]
  /\ cred = [t \in Threads |-> RootCred]
  /\ touched = {}
  /\ ranAfter = [t \in Threads |-> {}]
  /\ unit = [u \in Units |-> InitUnit("direct", "")]

InitIdleTasks ==
  /\ fs = InitFs
  /\ msg = [m \in Msgs |-> Message("nasx.root.fs.delete", ZeroTask)]
  /\ queue = [m \in Msgs |-> [state |-> "acked", deliveries |-> 0]]
  /\ cur = 0
  /\ log = [m \in Msgs |-> NoLog]
  /\ last = NoAttempt
  /\ sync = NoSync
  /\ op = NoOp
  /\ mkdirs = << >>
  /\ InitRest

\* The stream holds NumMsgs messages, each with its own job id.  Which
\* message is published first does not matter to the consumer, so the
\* samples are taken in order.
InitTasks ==
  /\ fs = InitFs
  /\ \E pick \in [Msgs -> 1 .. Len(MessageSamples)] :
       /\ \A m \in Msgs \ {1} : pick[m - 1] <= pick[m]
       /\ msg = [m \in Msgs |-> WithJobId(MessageSamples[pick[m]], m)]
  /\ queue = [m \in Msgs |-> [state |-> "pending", deliveries |-> 0]]
  /\ cur = 0
  /\ log = [m \in Msgs |-> NoLog]
  /\ last = NoAttempt
  /\ sync = NoSync
  /\ op = NoOp
  /\ mkdirs = << >>
  /\ InitRest

Init == InitIdleCred /\ InitTasks

Next ==
  \/ \E m \in Msgs : Fetch(m)
  \/ \E env \in Envs, ackLost \in BOOLEAN : HandleTask(env, ackLost)

Spec == Init /\ [][Next]_vars

InitSync == InitIdleCred /\ InitIdleTasks

NextSync ==
  \/ \E kind \in {"list", "stat", "read"}, req \in PathRequestSamples,
        env \in Envs :
       HandlePathRequest(kind, req, env)
  \/ \E req \in ChunkRequestSamples, env \in Envs : HandleWriteChunk(req, env)

SpecSync == InitSync /\ [][NextSync]_vars

InitCred == InitCredUnits /\ InitIdleTasks

SpecCred == InitCred /\ [][NextCred]_vars

(***************************************************************************)
(* Claims about the Privilege Context Executor (SpecCred)                  *)
(***************************************************************************)

\* The effective id a unit of work is meant to see: its identity's id
\* inside a privileged window, root otherwise.
ExpectedId(u) == IF unit[u].window THEN unit[u].ctx.uid ELSE 0

\* C1: in every interleaving each impersonated unit observes only its own
\* identity's id as effective id and each non-impersonated unit observes
\* only root; no unit observes an effective id set for another unit.
C1_ThreadIsolation ==
  \A u \in Units : unit[u].observed \subseteq {ExpectedId(u)}

\* C2: runAs executes the work with the effective user id of the identity,
\* and when runAs returns the effective user id, group id and supplementary
\* groups of the executing thread are root's again, whether the work
\* succeeded or returned an error.
C2_RunAsRestores ==
  \A u \in Units :
    /\ (unit[u].window /\ unit[u].ran) => unit[u].observed = {unit[u].ctx.uid}
    /\ (unit[u].window /\ unit[u].pc = "done" /\ unit[u].ran)
         => unit[u].retCred = RootCred

\* C3: a thread on which runAs made a credential-changing call is never
\* unlocked or returned to the pool and never runs another unit of work,
\* whether the window completed, the work failed or a setup call failed
\* midway.
C3_ThreadRetired ==
  \A t \in touched : tstate[t] # "pool" /\ ranAfter[t] = {}

\* A window whose setup failed after the supplementary groups were changed
\* has ended, its thread is gone, and another unit has run its work since.
C3_Witness ==
  \E u, v \in Units :
    /\ u # v
    /\ unit[u].failedAt = "setresgid"
    /\ tstate[unit[u].thr] = "retired"
    /\ unit[v].pc = "done" /\ unit[v].ran
    /\ \E w \in Units : unit[w].window /\ unit[w].ret \in {"ok", "fnerr"}

\* C10: if setting the supplementary groups, the group id or the effective
\* user id fails during setup, the unit of work is not executed, runAs
\* returns an error and the caller reports a failed reply or job event.
C10_SetupFailureAborts ==
  \A u \in Units :
    unit[u].failedAt # "none" =>
      /\ ~unit[u].ran
      /\ unit[u].ret = "setuperr"
      /\ unit[u].report = "failed"

\* The last setup call of a window has failed (another window had changed
\* the identity of the process), the work was skipped and the caller has
\* reported the failure.
C10_Witness ==
  \E u \in Units :
    /\ unit[u].failedAt = "setresuid"
    /\ unit[u].pc = "done"
    /\ ~unit[u].ran
    /\ unit[u].report = "failed"

(***************************************************************************)
(* Claims about the task handler and the pull consumer (Spec)              *)
(***************************************************************************)

\* Message m is a well-formed task message of a known kind.
KnownJob(m) == msg[m].decodable /\ msg[m].subject \in taskSubjects

\* The latest handling was of a well-formed task message of a known kind.
HandledJob == last.m # 0 /\ KnownJob(last.m)

\* The events of the latest handling are one event of the given status.
OneEvent(status) == Len(last.events) = 1 /\ last.events[1].status = status

\* C4: a handled delivery of a well-formed task message of a known kind is
\* acknowledged (Ack) exactly when the operation succeeded, and its event
\* then has status completed; it is negatively acknowledged (Nak) exactly
\* when validation, identity resolution or the operation failed, and its
\* event then has status failed with the error message; it receives one of
\* the two and never both.
C4_AckMatchesOutcome ==
  HandledJob =>
    /\ last.ack \in {"ack", "nak"}
    /\ last.ack = "ack" <=> last.fsErr = NoErr
    /\ last.ack = "nak" <=> last.fsErr # NoErr
    /\ last.ack = "ack" => OneEvent("completed") /\ last.events[1].error = ""
    /\ last.ack = "nak" =>
         /\ OneEvent("failed")
         /\ last.events[1].error = last.fsErr.message
         /\ last.fsErr.message # ""

\* A job was negatively acknowledged with a failed event after another job
\* had been acknowledged with a completed event.
C4_Witness ==
  /\ HandledJob /\ last.ack = "nak" /\ OneEvent("failed")
  /\ \E m \in Msgs \ {last.m} :
       log[m].status = "completed" /\ queue[m].state = "acked"

\* The event of the latest handling carries the job id of the message and
\* is published on the event subject of that job id.
EchoesJobId ==
  /\ Len(last.events) = 1
  /\ last.events[1].jobId = msg[last.m].task.jobId
  /\ last.events[1].subject = <<"nasx.events.job", msg[last.m].task.jobId>>

\* C5 as stated: every delivery attempt of a job message results in exactly
\* one published event, which carries the job id of the message on the
\* event subject of that job id.
C5_OneEventPerAttempt == last.m # 0 => EchoesJobId

\* C5 amended: every delivery attempt of a well-formed job message of a
\* known kind results in exactly one published event, which carries the
\* job id of the message on the event subject of that job id.
C5_OneEventPerKnownAttempt == HandledJob => EchoesJobId

\* The second job of the stream was handled and its event carries its id,
\* which is not the id of the first job.
C5_Witness ==
  /\ HandledJob /\ last.m = 2
  /\ EchoesJobId
  /\ last.events[1].jobId # msg[1].task.jobId
  /\ log[1].status # "none"

\* C6: no task message is handed to the handler more than 3 times; a job
\* whose every attempt failed is not delivered again after the third
\* attempt, and its last event has status failed.
C6_DeliveryLimit ==
  \A m \in Msgs :
    /\ queue[m].deliveries <= 3
    /\ (KnownJob(m) /\ queue[m].deliveries = 3 /\ cur # m
          /\ log[m].okAfter = {})
         => log[m].status = "failed" /\ ~ENABLED Fetch(m)

\* A job has failed three times and is still unacknowledged.
C6_Witness ==
  \E m \in Msgs :
    /\ KnownJob(m) /\ queue[m].deliveries = 3 /\ cur # m
    /\ log[m].okAfter = {} /\ log[m].status = "failed"
    /\ queue[m].state = "pending"

Extends(g, f) == \A q \in DOMAIN g : q \in DOMAIN f /\ f[q] = g[q]

\* C8: executing a job again after a first execution that succeeded but
\* whose acknowledgement was lost leaves the result of the first execution
\* intact: every entry the first execution left is still there with the
\* same content, the only additional effects being further entries.
C8_ReexecutionKeepsResult ==
  (HandledJob /\ last.redo) =>
    \A g \in log[last.m].okAfter : Extends(g, fs)

\* C8 for the kinds other than assemble.
C8_ExceptAssemble ==
  (HandledJob /\ last.redo /\ msg[last.m].subject # "nasx.root.fs.assemble") =>
    \A g \in log[last.m].okAfter : Extends(g, fs)

\* The path arguments of a task.
PathArgs(m) ==
  LET task == msg[m].task IN
    CASE msg[m].subject = "nasx.root.fs.mkdir" -> {task.parentPath}
      [] msg[m].subject \in {"nasx.root.fs.copy", "nasx.root.fs.move"}
           -> {task.src, task.dstDir}
      [] msg[m].subject = "nasx.root.fs.assemble"
           -> {task.destFile, task.stagingDir}
              \cup {task.chunks[i] : i \in 1 .. Len(task.chunks)}
      [] OTHER -> {task.path}

\* Path p is not absolute or holds a NUL byte.
BadPath(p) == ~IsAbs(p) \/ ContainsNul(p)

\* The latest request on the synchronous path had a bad path argument.
BadSyncRequest ==
  /\ sync.kind # "none"
  /\ IF sync.kind = "write-chunk"
       THEN sync.req.hasMeta /\ sync.req.decodable
            /\ BadPath(sync.req.meta.destDir)
       ELSE sync.req.decodable /\ BadPath(sync.req.path)

\* C9: on the synchronous and on the queued path, a request with a path
\* argument that is not absolute or holds a NUL byte fails with a Generic
\* error, and nothing happened before the rejection: no filesystem access,
\* no identity lookup, no credential change.
C9_BadPathRejected ==
  /\ (HandledJob /\ \E p \in PathArgs(last.m) : BadPath(p)) =>
       /\ last.ack = "nak"
       /\ last.fsErr.code = "ERR"
       /\ last.trace = << >>
       /\ ~last.changed
  /\ BadSyncRequest =>
       /\ Len(sync.sent) = 1
       /\ ~sync.sent[1].ok /\ sync.sent[1].code = "ERR"
       /\ sync.trace = << >>
       /\ ~sync.changed

\* C9 for the paths handleTask passes to validatePaths.
C9_ValidatedPathRejected ==
  (HandledJob /\ \E i \in 1 .. Len(ValidatedPaths(msg[last.m].subject, msg[last.m].task)) :
                   BadPath(ValidatedPaths(msg[last.m].subject, msg[last.m].task)[i])) =>
    /\ last.ack = "nak"
    /\ last.fsErr.code = "ERR"
    /\ last.trace = << >>
    /\ ~last.changed

(***************************************************************************)
(* Part 5.  The operations applied one after the other                     *)
(*                                                                         *)
(*   SpecNames  doMkdir and doCopy, which choose a free name.              *)
(*   SpecOps    doMove, doRename, a rename requested through the backend   *)
(*              router, and the assemble branch of handleTask.             *)
(***************************************************************************)

\* Calls in a behaviour of SpecNames, and of SpecOps.
MaxCalls == 4
MaxSteps == 2

\* A directory so deep that an entry two levels below it has a path longer
\* than the kernel accepts.
DeepDir == Abs([i \in 1 .. (MaxPathLen - 2) |-> <<"e">>])

FileEF == Abs(<<<<"e">>, <<"f", ".txt">>>>)

\* The filesystem the operations start from: InitFs, the directories down
\* to DeepDir, and a file /e/f.txt with the base name of /d/f.txt.
OpsFs ==
  LET chain == {SubSeq(DeepDir, 1, i) : i \in 2 .. Len(DeepDir)} IN
    [q \in DOMAIN InitFs \cup chain \cup {FileEF} |->
       IF q \in DOMAIN InitFs THEN InitFs[q]
       ELSE IF q = FileEF THEN FileEntry(<<9>>, "600", Alice)
       ELSE DirEntry("755", Alice)]

MkdirApplied(parent, name, r) ==
  /\ fs' = r.fs
  /\ op' = [kind |-> "mkdir", n |-> op.n + 1, before |-> fs,
            args |-> [parent |-> parent, name |-> name],
            err |-> r.err, path |-> r.path]
  /\ mkdirs' = IF r.err = ""
                 THEN Append(mkdirs, [parent |-> parent, name |-> name,
                                      path |-> r.path])
                 ELSE mkdirs

\* doMkdir(parent, name) run as who.
MkdirCall(parent, name, who, deny) ==
  /\ op.n < MaxCalls
  /\ MkdirApplied(parent, name, doMkdir(fs, parent, name, who, deny))
  /\ UNCHANGED <<msg, queue, cur, log, last, sync>>
  /\ UNCHANGED <<credVars, restVars>>

\* An operation on src that reports a path: copy, move, rename.
Applied(kind, bound, args, r) ==
  /\ op.n < bound
  /\ fs' = r.fs
  /\ op' = [kind |-> kind, n |-> op.n + 1, before |-> fs, args |-> args,
            err |-> r.err, path |-> r.path]
  /\ UNCHANGED <<msg, queue, cur, log, last, sync, mkdirs>>
  /\ UNCHANGED <<credVars, restVars>>

\* doCopy(src, dstDir) run as who.
CopyCall(src, dstDir, who, deny) ==
  Applied("copy", MaxCalls, [src |-> src, dstDir |-> dstDir],
          doCopy(fs, src, dstDir, who, deny))

\* doMove(src, dstDir) run as who.
MoveCall(src, dstDir, who, deny, xdev) ==
  Applied("move", MaxSteps, [src |-> src, dstDir |-> dstDir, xdev |-> xdev],
          doMove(fs, src, dstDir, who, deny, xdev))

\* doRename(path, newName).
RenameCall(path, newName, deny) ==
  Applied("rename", MaxSteps, [path |-> path, newName |-> newName],
          doRename(fs, path, newName, deny))

\* path.normalize of the backend: the path is cleaned, a trailing
\* separator is kept.
normalize(p) ==
  IF Len(p) > 1 /\ p[Len(p)] = Slash THEN Append(Clean(p), Slash)
  ELSE Clean(p)

\* newName.includes("/")
IncludesSlash(name) ==
  Len(name) > 1 \/ \E i \in 1 .. Len(name) : name[i] = Slash

fsRouterRenameUnchecked(input, permitted, linuxUser) ==
  IF ~permitted THEN [ok |-> FALSE, error |-> "FORBIDDEN"]
  ELSE [ok |-> TRUE, error |-> "",
        job |-> RenameMsg(linuxUser, normalize(input.path), input.newName)]

\* fsRouter.rename: the input is parsed (newName of at least one character),
\* the name is checked, then the permission, and the job is published.
fsRouterRename(input, permitted, linuxUser) ==
  IF input.newName = << >> THEN [ok |-> FALSE, error |-> "BAD_REQUEST"]
  ELSE IF IncludesSlash(input.newName) \/ input.newName = <<Dot>>
            \/ input.newName = <<DotDot>>
    THEN [ok |-> FALSE, error |-> "BAD_REQUEST"]
  ELSE IF ~permitted THEN [ok |-> FALSE, error |-> "FORBIDDEN"]
  ELSE [ok |-> TRUE, error |-> "",
        job |-> RenameMsg(linuxUser, normalize(input.path), input.newName)]

\* The job event of a handling h, "none" when it published none.
StatusOf(h) == IF h.events = << >> THEN "none" ELSE h.events[1].status
ResultOf(h) == IF h.events = << >> THEN "nil" ELSE h.events[1].result

\* A job handled by the worker: what op keeps of the handling h.
JobApplied(kind, args, h) ==
  /\ fs' = h.fs
  /\ op' = [kind |-> kind, n |-> op.n + 1, before |-> fs, args |-> args,
            rejected |-> FALSE, status |-> StatusOf(h),
            result |-> ResultOf(h), fsErr |-> h.fsErr, events |-> h.events,
            trace |-> h.trace, ran |-> h.ran, errno |-> h.errno]

\* A rename request after the router has answered r: rejected, or published
\* and handled by the worker.
Routed(input, r, env) ==
  IF ~r.ok
    THEN /\ fs' = fs
         /\ op' = [kind |-> "router-rename", n |-> op.n + 1, before |-> fs,
                   args |-> input, rejected |-> TRUE, status |-> "none",
                   result |-> "nil", fsErr |-> Generic(r.error)]
    ELSE JobApplied("router-rename", input,
                    handleTask(fs, WithJobId(r.job, 1), env))

\* trpc.fs.rename.mutate(input) by a user with or without the permission.
RouterRename(input, permitted, linuxUser, env) ==
  /\ op.n < MaxSteps
  /\ Routed(input, fsRouterRename(input, permitted, linuxUser), env)
  /\ UNCHANGED <<msg, queue, cur, log, last, sync, mkdirs>>
  /\ UNCHANGED <<credVars, restVars>>

\* An assemble job handled by the worker.
AssembleJob(user, destFile, chunks, stagingDir, env) ==
  /\ op.n < MaxSteps
  /\ JobApplied("assemble",
                [destFile |-> destFile, chunks |-> chunks,
                 stagingDir |-> stagingDir],
                handleTask(fs, WithJobId(AssembleMsg(user, destFile, chunks,
                                                     stagingDir), 1), env))
  /\ UNCHANGED <<msg, queue, cur, log, last, sync, mkdirs>>
  /\ UNCHANGED <<credVars, restVars>>

InitOps ==
  /\ InitIdleCred
  /\ fs = OpsFs
  /\ msg = [m \in Msgs |-> Message("nasx.root.fs.delete", ZeroTask)]
  /\ queue = [m \in Msgs |-> [state |-> "acked", deliveries |-> 0]]
  /\ cur = 0
  /\ log = [m \in Msgs |-> NoLog]
  /\ last = NoAttempt
  /\ sync = NoSync
  /\ op = NoOp
  /\ mkdirs = << >>
  /\ InitRest

NextNames ==
  \/ \E parent \in {DirD}, name \in {Photos, << >>}, deny \in BOOLEAN :
       MkdirCall(parent, name, Passwd.alice, deny)
  \/ \E src \in {FileF, DirSub, Missing}, dstDir \in {DirD, DirE},
        deny \in BOOLEAN :
       CopyCall(src, dstDir, Passwd.alice, deny)

SpecNames == InitOps /\ [][NextNames]_vars

\* Copies of a file and of directories into another directory, into the
\* directory that holds the source, into the source itself and into a
\* directory inside the source.
NextCopy ==
  \E src \in {FileF, DirSub, DirD}, dstDir \in {DirD, DirSub, DirE},
     deny \in BOOLEAN :
    CopyCall(src, dstDir, Passwd.alice, deny)

SpecCopy == InitOps /\ [][NextCopy]_vars

\* New names a rename is asked for: "", ".", "..", "../x", "sub/x", "x/",
\* and the plain names h, sub and f.txt.
NewNames ==
  { << >>, <<Dot>>, <<DotDot>>, <<DotDot, <<"x">>>>, <<<<"sub">>, <<"x">>>>,
    <<<<"x">>, Slash>>, <<<<"h">>>>, <<<<"sub">>>>, <<<<"f", ".txt">>>> }

AssembleTask(user, destFile, chunks, stagingDir) ==
  [user |-> user, destFile |-> destFile, chunks |-> chunks,
   stagingDir |-> stagingDir]

\* Assemble jobs: two and three chunks in either order, none, a destination
\* that holds data, one that is a directory, one that is the first chunk
\* (without and with the staging directory), a chunk that is missing, no
\* staging directory, a relative one, an unknown account.
AssembleSamples ==
  { AssembleTask("alice", FileOut, <<Chunk0, Chunk1>>, Staging),
    AssembleTask("alice", FileOut, <<Chunk1, Chunk0>>, Staging),
    AssembleTask("alice", FileF, <<Chunk0, Chunk1, Chunk0>>, Staging),
    AssembleTask("alice", FileF, << >>, Staging),
    AssembleTask("alice", FileF, <<Chunk1>>, << >>),
    AssembleTask("", FileOut, <<Chunk0, Missing>>, Staging),
    AssembleTask("alice", Chunk0, <<Chunk0, Chunk1>>, << >>),
    AssembleTask("alice", Chunk0, <<Chunk0, Chunk1>>, Staging),
    AssembleTask("alice", DirSub, <<Chunk0>>, Staging),
    AssembleTask("alice", FileOut, <<Chunk0, Chunk1>>, RelStaging),
    AssembleTask("ghost", FileOut, <<Chunk0>>, Staging) }

\* The environments of the assemble branch: those of Envs in which nothing
\* is moved, and one in which os.RemoveAll of the staging directory fails.
OpsEnvs ==
  {env \in Envs : ~env.xdev}
    \cup {[setupOk |-> TRUE, deny |-> FALSE, xdev |-> FALSE, rmFails |-> TRUE]}

NextOps ==
  \/ \E src \in {FileF, DirSub, Missing}, dstDir \in {DirD, DirE, DeepDir},
        env \in {e \in Envs : e.setupOk} :
       MoveCall(src, dstDir, Passwd.alice, env.deny, env.xdev)
  \/ \E path \in {FileF, DirSub},
        newName \in {<<<<"h">>>>, <<<<"sub">>>>, <<<<"f", ".txt">>>>},
        deny \in BOOLEAN :
       RenameCall(path, newName, deny)
  \/ \E path \in {FileF, Append(DirSub, Slash)}, newName \in NewNames,
        permitted \in BOOLEAN, env \in {e \in Envs : e.setupOk /\ ~e.xdev} :
       RouterRename([path |-> path, newName |-> newName], permitted, "alice",
                    env)
  \/ \E t \in AssembleSamples, env \in OpsEnvs :
       AssembleJob(t.user, t.destFile, t.chunks, t.stagingDir, env)

SpecOps == InitOps /\ [][NextOps]_vars

(***************************************************************************)
(* Reading.  SpecRead: read requests for a file of every size from empty   *)
(* to one byte more than doRead returns at most, and for every content.    *)
(***************************************************************************)

\* The contents of a file of n bytes, each byte 1 or 2.
BytesOfLen(n) == [1 .. n -> {1, 2}]

\* json.Marshal of a syncResponse that carries an error: the text of the
\* envelope {"ok": false, "error": ..., "code": ...}, kept as one unit of
\* content that tells the code.
Marshal(reply) ==
  <<CASE reply.code = "EACCES" -> 101
      [] reply.code = "ENOENT" -> 102
      [] reply.code = "EEXIST" -> 103
      [] OTHER -> 100>>

\* The bytes of a reply on the wire: handleRead publishes the bytes read,
\* replyOk and replyErr the JSON text.
Wire(reply) == IF reply.raw THEN reply.result ELSE Marshal(reply)

\* The contents of the file that is read: every content up to one byte
\* more than the cap, and the text of an error envelope.
ReadContents ==
  UNION {BytesOfLen(n) : n \in 0 .. (MaxReadBytes + 1)}
    \cup {Marshal(replyErr(mapOsErr("ENOENT")))}

InitRead ==
  /\ InitIdleCred
  /\ \E data \in ReadContents : fs = [InitFs EXCEPT ![FileF].data = data]
  /\ msg = [m \in Msgs |-> Message("nasx.root.fs.delete", ZeroTask)]
  /\ queue = [m \in Msgs |-> [state |-> "acked", deliveries |-> 0]]
  /\ cur = 0
  /\ log = [m \in Msgs |-> NoLog]
  /\ last = NoAttempt
  /\ sync = NoSync
  /\ op = NoOp
  /\ mkdirs = << >>
  /\ InitRest

NextRead ==
  \E user \in {"", "alice", "ghost"}, path \in {FileF, FileG, DirD, Missing},
     env \in {e \in Envs : ~e.xdev} :
    HandlePathRequest("read", PathRequest(user, path), env)

SpecRead == InitRead /\ [][NextRead]_vars

(***************************************************************************)
(* The download route of the backend, which reads through the worker       *)
(*                                                                         *)
(*   SpecDownload  downloads of files and of paths that cannot be read     *)
(***************************************************************************)

\* requestRead: nc.request resolves with the reply, whatever it holds, and
\* rejects when no reply arrives in time; the data of the reply is returned
\* as it is.
requestRead(reply, arrives) ==
  IF arrives THEN [threw |-> FALSE, code |-> "", data |-> Wire(reply)]
  ELSE [threw |-> TRUE, code |-> "TIMEOUT", data |-> << >>]

\* stat and createReadStream of the backend itself, for a user without an
\* account.
downloadDirect(f, filePath) ==
  LET q == Clean(filePath) IN
    IF ~IsAbs(q) \/ ContainsNul(filePath) \/ LstatErr(f, q) # ""
      THEN [status |-> 404, body |-> << >>, asked |-> FALSE]
    ELSE IF f[q].kind # "file"
      THEN [status |-> 400, body |-> << >>, asked |-> FALSE]
    ELSE [status |-> 200, body |-> f[q].data, asked |-> FALSE]

\* What GET /files/download answers after the token was accepted: reply is
\* what the worker publishes for the read request.
filesDownload(f, filePath, permitted, linuxUser, reply, arrives) ==
  LET r == requestRead(reply, arrives) IN
    IF filePath = << >> THEN [status |-> 400, body |-> << >>, asked |-> FALSE]
    ELSE IF ~permitted THEN [status |-> 403, body |-> << >>, asked |-> FALSE]
    ELSE IF linuxUser = "" THEN downloadDirect(f, filePath)
    ELSE IF r.threw
      THEN [status |-> CASE r.code = "EACCES" -> 403
                         [] r.code = "ENOENT" -> 404
                         [] OTHER -> 500,
            body |-> << >>, asked |-> TRUE]
    ELSE [status |-> 200, body |-> r.data, asked |-> TRUE]

\* GET /files/download: the route, and handleRead in the worker when the
\* route asks it.
Download(filePath, permitted, linuxUser, arrives, env) ==
  LET h == handlePathRequest(fs, "read", PathRequest(linuxUser, filePath), env)
      d == filesDownload(fs, filePath, permitted, linuxUser, h.sent[1],
                         arrives)
  IN /\ backend' = [backend EXCEPT !.download = d]
     /\ sync' = IF d.asked
                  THEN [kind |-> "read",
                        req |-> PathRequest(linuxUser, filePath),
                        sent |-> h.sent, trace |-> h.trace, changed |-> FALSE,
                        ran |-> h.ran, errno |-> h.errno]
                ELSE NoSync
     /\ UNCHANGED <<fs, msg, queue, cur, log, last, op, mkdirs>>
     /\ UNCHANGED <<credVars, passwd, staged, loop>>

NextDownload ==
  \E filePath \in {FileF, FileG, DirD, Missing, RelPath, NulPath, << >>},
     permitted \in BOOLEAN, linuxUser \in {"", "alice", "ghost"},
     arrives \in BOOLEAN, env \in {e \in Envs : ~e.xdev} :
    Download(filePath, permitted, linuxUser, arrives, env)

SpecDownload == InitRead /\ [][NextDownload]_vars

(***************************************************************************)
(* The job ledger of the backend: publishJob, the event subscriber and the *)
(* restart, around the pull consumer of the worker                         *)
(*                                                                         *)
(*   SpecLedger      jobs published, handled, redelivered; events applied; *)
(*                   the backend restarted                                 *)
(*   SpecLedgerLive  the same without restart, every step taken in time    *)
(***************************************************************************)

\* The number of times the backend is started again.
MaxRestarts == 1

\* Jobs the routers publish: a rename that succeeds once, a delete, a mkdir
\* the worker rejects.
LedgerJobs ==
  { RenameMsg("alice", FileF, <<<<"h">>>>), DeleteMsg("alice", DirSub),
    MkdirMsg("alice", RelPath, Photos) }

\* The environments of a handling: nothing, or a filesystem that refuses.
LedgerEnvs == {e \in Envs : e.setupOk /\ ~e.xdev}

\* publishJob: the ledger entry is created as pending, then the message is
\* published to the stream.  The m-th job gets the m-th id.
PublishJob(m, job) ==
  /\ JobIdOf(m) \notin DOMAIN backend.ledger
  /\ \A k \in 1 .. (m - 1) : JobIdOf(k) \in DOMAIN backend.ledger
  /\ backend' = [backend EXCEPT !.ledger = (JobIdOf(m) :> "pending") @@ @]
  /\ msg' = [msg EXCEPT ![m] = WithJobId(job, m)]
  /\ queue' = [queue EXCEPT ![m] = [state |-> "pending", deliveries |-> 0]]
  /\ UNCHANGED <<fs, cur, log, last, sync, op, mkdirs>>
  /\ UNCHANGED <<credVars, passwd, staged, loop>>

\* handleTask of the fetched message; the events it publishes reach the
\* subscription of the backend.
HandleJob(env, ackLost) ==
  /\ cur # 0
  /\ \E h \in {handleTask(fs, msg[cur], env)} :
       /\ Handled(h, ackLost)
       /\ backend' = [backend EXCEPT !.inbox = @ \o h.events]
  /\ cur' = 0
  /\ UNCHANGED <<msg, sync, op, mkdirs>>
  /\ UNCHANGED <<credVars, passwd, staged, loop>>

\* A subscriber that leaves the ledger as it is.
applyEventSkipped(ledger, event) == ledger

\* prisma.job.update of the event subscriber: the status of the event
\* replaces the status of the entry; an event without job id is skipped, an
\* update of an entry that does not exist throws and is logged.
applyEvent(ledger, event) ==
  IF event.jobId = "" \/ event.jobId \notin DOMAIN ledger THEN ledger
  ELSE [ledger EXCEPT ![event.jobId] = event.status]

\* One iteration of the loop of startEventSubscriber.
ApplyEvent ==
  /\ backend.inbox # << >>
  /\ backend' = [backend EXCEPT
       !.ledger = applyEvent(@, Head(backend.inbox)),
       !.inbox = Tail(@)]
  /\ UNCHANGED <<taskVars, credVars, passwd, staged, loop>>

\* connectNats after a restart of the backend: the entries that are pending
\* or running become failed.  The events the old process had received and
\* not applied are gone with it.
Restart ==
  /\ backend.restarts < MaxRestarts
  /\ backend' = [backend EXCEPT
       !.ledger = [j \in DOMAIN @ |->
                     IF @[j] \in {"pending", "running"} THEN "failed" ELSE @[j]],
       !.inbox = << >>,
       !.restarts = @ + 1]
  /\ UNCHANGED <<taskVars, credVars, passwd, staged, loop>>

\* The broker hands a message over, the worker handles it, the subscriber
\* applies an event.
NextDelivery ==
  \/ \E m \in Msgs : Fetch(m)
  \/ \E env \in LedgerEnvs, ackLost \in BOOLEAN : HandleJob(env, ackLost)
  \/ ApplyEvent

\* The backend, the broker and the worker while all of them keep running.
NextRunning ==
  \/ \E m \in Msgs, job \in LedgerJobs : PublishJob(m, job)
  \/ NextDelivery

NextLedger == NextRunning \/ Restart

SpecLedger == InitSync /\ [][NextLedger]_vars

\* NextDelivery is enabled: a message can be fetched, a fetched message is
\* to be handled, or an event is to be applied.
CanDeliver ==
  \/ cur # 0
  \/ backend.inbox # << >>
  \/ \E m \in Msgs :
       queue[m].state = "pending" /\ queue[m].deliveries < MaxDeliver

\* A step of NextRunning that is one of NextDelivery: no job is published.
Delivered == DOMAIN backend'.ledger = DOMAIN backend.ledger

\* The broker, the worker and the subscriber do not stop while one of them
\* has something to do: weak fairness of NextDelivery, written with its
\* enabling condition.  Every step uses up a delivery or an event, so this
\* is what weak fairness of each of them amounts to.
SpecLedgerLive ==
  /\ InitSync
  /\ [][NextRunning]_vars
  /\ ([]<>(~CanDeliver) \/ []<><<Delivered>>_vars)

(***************************************************************************)
(* The pull loop, one step at a time                                       *)
(*                                                                         *)
(*   SpecLoop   jobs published; the loop fetches, times out, fails, backs  *)
(*              off, calls the handler, stops                              *)
(***************************************************************************)

\* time.Sleep(time.Second) after a fetch error, in seconds.
BackoffSeconds == 1

\* A loop that starts a fetch wherever it stands.
AtFetchAnywhere(l) == l.pc # "stopped"

\* The loop is at the top of its body, about to call sub.Fetch(1).
AtFetch(l) == l.pc = "fetch"

\* msgs, err := sub.Fetch(1) with err == nil, then handleTask(nc, msg) is
\* called with the one message fetched.
LoopFetch(m) ==
  /\ AtFetch(loop)
  /\ queue[m].state = "pending"
  /\ queue[m].deliveries < MaxDeliver
  /\ queue' = [queue EXCEPT ![m].deliveries = @ + 1]
  /\ cur' = m
  /\ loop' = [pc |-> "handle", err |-> "none", slept |-> 0,
              running |-> loop.running \cup {m}]
  /\ UNCHANGED <<fs, msg, log, last, sync, op, mkdirs>>
  /\ UNCHANGED <<credVars, passwd, staged, backend>>

\* handleTask returns: the range over msgs ends and the loop starts over.
LoopHandled(env, ackLost) ==
  /\ cur \in loop.running
  /\ Handled(handleTask(fs, msg[cur], env), ackLost)
  /\ cur' = 0
  /\ loop' = [loop EXCEPT !.pc = "fetch", !.running = @ \ {cur}]
  /\ UNCHANGED <<msg, sync, op, mkdirs>>
  /\ UNCHANGED <<credVars, passwd, staged, backend>>

\* err == nats.ErrTimeout: continue.
LoopTimeout ==
  /\ AtFetch(loop)
  /\ loop' = [loop EXCEPT !.err = "timeout", !.slept = 0]
  /\ UNCHANGED <<taskVars, credVars, passwd, staged, backend>>

\* err == nats.ErrConnectionClosed: return.
LoopClosed ==
  /\ AtFetch(loop)
  /\ loop' = [loop EXCEPT !.pc = "stopped", !.err = "closed", !.slept = 0]
  /\ UNCHANGED <<taskVars, credVars, passwd, staged, backend>>

\* Any other error of the fetch: it is logged and the loop sleeps.
LoopFetchError ==
  /\ AtFetch(loop)
  /\ loop' = [loop EXCEPT !.pc = "backoff", !.err = "other", !.slept = 0]
  /\ UNCHANGED <<taskVars, credVars, passwd, staged, backend>>

\* time.Sleep(time.Second) is over: continue.
LoopBackoff ==
  /\ loop.pc = "backoff"
  /\ loop' = [loop EXCEPT !.pc = "fetch", !.slept = BackoffSeconds]
  /\ UNCHANGED <<taskVars, credVars, passwd, staged, backend>>

NextLoop ==
  \/ \E m \in Msgs, job \in LedgerJobs : PublishJob(m, job)
  \/ \E m \in Msgs : LoopFetch(m)
  \/ \E env \in LedgerEnvs, ackLost \in BOOLEAN : LoopHandled(env, ackLost)
  \/ LoopTimeout
  \/ LoopClosed
  \/ LoopFetchError
  \/ LoopBackoff

SpecLoop == InitSync /\ [][NextLoop]_vars

(***************************************************************************)
(* Delete jobs                                                             *)
(*                                                                         *)
(*   SpecDelete   delete jobs published, delivered and delivered again     *)
(***************************************************************************)

\* A path below a file.
UnderFile == Append(FileF, <<"x">>)

\* Delete jobs: a directory tree, a file, a path that is not there, a path
\* below a file, and a path that is not there for an unknown account.
DeleteJobs ==
  { DeleteMsg("alice", DirSub), DeleteMsg("alice", FileF),
    DeleteMsg("", Missing), DeleteMsg("alice", UnderFile),
    DeleteMsg("ghost", Missing) }

NextDelete ==
  \/ \E m \in Msgs, job \in DeleteJobs : PublishJob(m, job)
  \/ \E m \in Msgs : Fetch(m)
  \/ \E env \in Envs, ackLost \in BOOLEAN : HandleJob(env, ackLost)

SpecDelete == InitSync /\ [][NextDelete]_vars

(***************************************************************************)
(* Part 6.  Accounts.  The account database changes while the worker runs, *)
(* between the jobs and requests it handles one after the other.           *)
(*                                                                         *)
(*   SpecAccounts  jobs and path requests of every kind of account, and    *)
(*                 the administrator changing the database.                *)
(***************************************************************************)

\* alice after the administrator has given the name to another identity.
AliceRemapped ==
  [uid |-> 2000, gid |-> 2000, gids |-> {2000}, groupsOk |-> TRUE]

\* The states of the account database: as the worker found it, alice
\* remapped, bob deleted, the groups of carol readable again.
PasswdDbs ==
  { PasswdDb,
    [PasswdDb EXCEPT !["alice"] = AliceRemapped],
    [n \in DOMAIN PasswdDb \ {"bob"} |-> PasswdDb[n]],
    [PasswdDb EXCEPT !["carol"].groupsOk = TRUE] }

\* The administrator installs the database db.
Remap(db) ==
  /\ db # passwd
  /\ passwd' = db
  /\ UNCHANGED <<credVars, taskVars, staged, backend, loop>>

\* A message with the account name user in its body.
WithAccount(m, user) == [m EXCEPT !.task.linuxUsername = user]

\* Jobs of every kind of account: chmod and chown with and without an
\* account name, mkdir and delete for no account, a known, a remapped, a
\* deleted and an unknown account and one whose groups cannot be read.
AccountJobs ==
  { WithAccount(ChmodMsg(FileF, "600"), "alice"),
    WithAccount(ChmodMsg(Missing, "600"), "carol"),
    ChownMsg(FileF, "bob", "sudo"),
    WithAccount(ChownMsg(FileF, "1001", "1001"), "ghost"),
    MkdirMsg("", DirE, Photos), MkdirMsg("alice", DirD, Photos),
    MkdirMsg("bob", DirD, Photos), MkdirMsg("ghost", DirD, Photos),
    MkdirMsg("carol", DirD, Photos), DeleteMsg("", Missing) }

\* The environments of SpecAccounts: the setup calls of runAsUser succeed
\* or fail, the filesystem refuses nothing.
AccountEnvs == {e \in Envs : ~e.xdev /\ ~e.deny}

\* A job of AccountJobs handled by the worker.
AccountJob(m, env) ==
  /\ op.n < MaxSteps
  /\ JobApplied("job", m, handleTask(fs, WithJobId(m, 1), env))
  /\ UNCHANGED <<msg, queue, cur, log, last, sync, mkdirs>>
  /\ UNCHANGED <<credVars, restVars>>

AccountRequests ==
  { PathRequest(user, DirD) : user \in {"", "alice", "bob", "ghost", "carol"} }

NextAccounts ==
  \/ \E db \in PasswdDbs : Remap(db)
  \/ \E m \in AccountJobs, env \in AccountEnvs : AccountJob(m, env)
  \/ \E req \in AccountRequests, env \in AccountEnvs :
       HandlePathRequest("stat", req, env)

SpecAccounts == InitOps /\ [][NextAccounts]_vars

(***************************************************************************)
(* Part 7.  The upload routes of the backend.  A handler runs until its    *)
(* next await; the handlers of other requests run in between.              *)
(*                                                                         *)
(*   SpecUpload  chunk and cancel requests of one authenticated user, the  *)
(*               worker writing the chunks.                                *)
(***************************************************************************)

\* The number of requests the backend receives.
MaxRequests == 3

MAX_CHUNKS == 10000

\* path.join of the backend: the parts are joined and normalized.
join(dir, name) == normalize(dir \o name)

\* X-Chunk-Index and X-Total-Chunks of the requests: the only chunk, both
\* chunks of two, the last of three, and an index out of range.
ChunkHeaders == { <<0, 1>>, <<0, 2>>, <<1, 2>>, <<2, 3>>, <<1, 1>> }

UploadIds == {U1}
UploadFile == <<<<"out">>>>
UploadEnvs == {e \in Envs : e.setupOk /\ ~e.xdev}

\* A request of the chunk route after its headers were read: pc is the
\* await the handler stands at, state the UploadState object it holds (0:
\* none), status the HTTP status it answered with (0: not answered).
ChunkCall(uploadId, chunkIndex, totalChunks) ==
  [route |-> "chunk", uploadId |-> uploadId, chunkIndex |-> chunkIndex,
   totalChunks |-> totalChunks, fileName |-> UploadFile, destDir |-> DirE,
   data |-> <<chunkIndex + 7>>, pc |-> "hasPermission", state |-> 0,
   status |-> 0, done |-> FALSE, code |-> ""]

CancelCall(uploadId, state) ==
  [route |-> "cancel", uploadId |-> uploadId, chunkIndex |-> 0,
   totalChunks |-> 0, fileName |-> << >>, destDir |-> << >>, data |-> << >>,
   pc |-> IF state = 0 THEN "done" ELSE "publishJob", state |-> state,
   status |-> 200, done |-> FALSE, code |-> ""]

\* reply.status(n).send(...): the handler has returned.
Answered(req, status) == [req EXCEPT !.pc = "done", !.status = status]

\* uploadState.get, .set and .delete; 0 is undefined.
getUpload(b, id) ==
  IF id \in DOMAIN b.uploadState THEN b.uploadState[id] ELSE 0
setUpload(b, id, o) == [b EXCEPT !.uploadState = (id :> o) @@ @]
deleteUpload(b, id) ==
  [b EXCEPT !.uploadState = [k \in DOMAIN @ \ {id} |-> @[k]]]

\* The new UploadState of the first chunk.
NewState(req, linuxUser) ==
  [received |-> {}, totalChunks |-> req.totalChunks, fileName |-> req.fileName,
   destDir |-> req.destDir,
   stagingDir |-> join(req.destDir, StagingName(req.uploadId)),
   linuxUser |-> linuxUser]

\* The write-chunk request the backend sends for req, which holds state.
WriteChunkOf(req, state) ==
  ChunkRequest(state.linuxUser, state.destDir, req.uploadId, req.chunkIndex,
               req.data)

\* Array.from({length: totalChunks}, (_, i) => join(stagingDir, i + ".part"))
ChunksOf(stagingDir, totalChunks) ==
  [i \in 1 .. totalChunks |->
     join(stagingDir, <<<<IndexTok(i - 1), ".part">>>>)]

\* The assemble job of the request req, which holds state.
AssembleOf(req, state) ==
  AssembleMsg(state.linuxUser, join(state.destDir, state.fileName),
              ChunksOf(state.stagingDir, req.totalChunks), state.stagingDir)

\* The cancel requests of the upload id that have been answered.
Cancelled(b, uploadId) ==
  {e.r : e \in {c \in b.events : /\ c.kind = "cancelled"
                                 /\ c.uploadId = uploadId}}

\* The chunk indices the worker has staged for the upload of state.
WrittenOf(uploadId, state) ==
  {k.chunkIndex : k \in {j \in DOMAIN staged : /\ j.uploadId = uploadId
                                               /\ j.destDir = state.destDir}}

\* What reached the worker, or was answered, for an upload id through the
\* request r; cancelled holds the cancels of the id answered by then.
Event(kind, uploadId, r, body) ==
  [kind |-> kind, uploadId |-> uploadId, r |-> r, body |-> body,
   cancelled |-> Cancelled(backend, uploadId)]

UploadIdle ==
  UNCHANGED <<credVars, msg, queue, cur, log, last, op, mkdirs, passwd, loop>>

\* POST /files/upload/chunk up to its first await: the headers are read
\* and checked.
PostChunk(uploadId, chunkIndex, totalChunks) ==
  /\ Len(backend.reqs) < MaxRequests
  /\ LET req == ChunkCall(uploadId, chunkIndex, totalChunks)
         bad == \/ uploadId = << >>
                \/ totalChunks > MAX_CHUNKS
                \/ chunkIndex < 0 \/ chunkIndex >= totalChunks
     IN backend' = [backend EXCEPT
          !.reqs = Append(@, IF bad THEN Answered(req, 400) ELSE req)]
  /\ UNCHANGED <<fs, sync, staged>>
  /\ UploadIdle

\* hasPermission has answered: 403, or the state of the upload is looked up
\* and, when there is one, the chunk is sent to the worker.
HasPermission(r, permitted) ==
  /\ r \in DOMAIN backend.reqs
  /\ backend.reqs[r].pc = "hasPermission"
  /\ LET req == backend.reqs[r]
         state == getUpload(backend, req.uploadId)
     IN backend' = [backend EXCEPT !.reqs[r] =
          IF ~permitted THEN Answered(req, 403)
          ELSE IF state = 0 THEN [req EXCEPT !.pc = "getLinuxUser"]
          ELSE [req EXCEPT !.pc = "writeChunk", !.state = state]]
  /\ UNCHANGED <<fs, sync, staged>>
  /\ UploadIdle

\* getLinuxUser has answered: 500 without an account, else the new state
\* is stored under the upload id and the chunk is sent to the worker.
GetLinuxUser(r, linuxUser) ==
  /\ r \in DOMAIN backend.reqs
  /\ backend.reqs[r].pc = "getLinuxUser"
  /\ LET req == backend.reqs[r] IN
       backend' =
         IF linuxUser = ""
           THEN [backend EXCEPT !.reqs[r] = Answered(req, 500)]
         ELSE [setUpload(backend, req.uploadId, r) EXCEPT
                 !.objects = (r :> NewState(req, linuxUser)) @@ @,
                 !.reqs[r] = [req EXCEPT !.pc = "writeChunk", !.state = r]]
  /\ UNCHANGED <<fs, sync, staged>>
  /\ UploadIdle

\* The worker handles the write-chunk request of r and replies.
WriteChunk(r, env) ==
  /\ r \in DOMAIN backend.reqs
  /\ backend.reqs[r].pc = "writeChunk"
  /\ LET req == backend.reqs[r]
         wreq == WriteChunkOf(req, backend.objects[req.state])
         h == handleWriteChunk(fs, wreq, env)
     IN /\ fs' = h.fs
        /\ staged' = IF RepliedOk(h.sent)
                       THEN (StagedKey(wreq.meta) :> wreq.data) @@ staged
                       ELSE staged
        /\ backend' = [backend EXCEPT
             !.reqs[r] = [req EXCEPT !.pc = "written", !.code = h.sent[1].code,
                                     !.done = RepliedOk(h.sent)],
             !.events = @ \cup {Event("write-chunk", req.uploadId, r,
                                       [path |-> chunkPathOf(wreq.meta),
                                        chunkIndex |-> req.chunkIndex,
                                        ok |-> RepliedOk(h.sent)])}]
  /\ UNCHANGED sync
  /\ UploadIdle

\* writeChunk has returned or thrown: on an error the upload is forgotten;
\* else the index is recorded and, when as many indices are recorded as
\* this request declares, the assemble job is about to be published.
ChunkWritten(r) ==
  /\ r \in DOMAIN backend.reqs
  /\ backend.reqs[r].pc = "written"
  /\ LET req == backend.reqs[r]
         received == backend.objects[req.state].received \cup {req.chunkIndex}
     IN backend' =
          IF ~req.done
            THEN [deleteUpload(backend, req.uploadId) EXCEPT !.reqs[r] =
                    Answered(req, CASE req.code = "EACCES" -> 403
                                    [] req.code = "ENOSPC" -> 507
                                    [] OTHER -> 500)]
          ELSE [backend EXCEPT
                  !.objects[req.state].received = received,
                  !.reqs[r] =
                    IF Cardinality(received) < req.totalChunks
                      THEN Answered([req EXCEPT !.done = FALSE], 200)
                    ELSE [req EXCEPT !.pc = "publishJob", !.done = FALSE]]
  /\ UNCHANGED <<fs, sync, staged>>
  /\ UploadIdle

\* publishJob("fs.assemble", ...): the job is in the stream.
PublishAssemble(r) ==
  /\ r \in DOMAIN backend.reqs
  /\ backend.reqs[r].route = "chunk"
  /\ backend.reqs[r].pc = "publishJob"
  /\ LET req == backend.reqs[r]
         state == backend.objects[req.state]
     IN backend' = [backend EXCEPT
          !.reqs[r] = [req EXCEPT !.pc = "published"],
          !.events = @ \cup {Event("fs.assemble", req.uploadId, r,
                                    [job |-> AssembleOf(req, state),
                                     declared |-> state.totalChunks,
                                     written |-> WrittenOf(req.uploadId,
                                                           state)])}]
  /\ UNCHANGED <<fs, sync, staged>>
  /\ UploadIdle

\* publishJob has returned: the upload is forgotten, the answer is
\* {ok: true, done: true, jobId}.
AssembleReplied(r) ==
  /\ r \in DOMAIN backend.reqs
  /\ backend.reqs[r].pc = "published"
  /\ LET req == backend.reqs[r] IN
       backend' = [deleteUpload(backend, req.uploadId) EXCEPT
                     !.reqs[r] = Answered([req EXCEPT !.done = TRUE], 200)]
  /\ UNCHANGED <<fs, sync, staged>>
  /\ UploadIdle

\* DELETE /files/upload/cancel: no await before the answer.  Without a
\* state the answer is ok; else the upload is forgotten and the delete job
\* of its staging directory is on its way, not awaited.
DeleteCancel(uploadId) ==
  /\ Len(backend.reqs) < MaxRequests
  /\ LET state == getUpload(backend, uploadId)
         r == Len(backend.reqs) + 1
     IN backend' = [deleteUpload(backend, uploadId) EXCEPT
          !.reqs = Append(@, CancelCall(uploadId, state)),
          !.events = @ \cup {Event("cancelled", uploadId, r,
                                    [found |-> state # 0])}]
  /\ UNCHANGED <<fs, sync, staged>>
  /\ UploadIdle

\* publishJob("fs.delete", ...) of a cancel: the job is in the stream.
PublishDelete(r) ==
  /\ r \in DOMAIN backend.reqs
  /\ backend.reqs[r].route = "cancel"
  /\ backend.reqs[r].pc = "publishJob"
  /\ LET req == backend.reqs[r]
         state == backend.objects[req.state]
     IN backend' = [backend EXCEPT
          !.reqs[r] = [req EXCEPT !.pc = "done"],
          !.events = @ \cup {Event("fs.delete", req.uploadId, r,
                                    DeleteMsg(state.linuxUser,
                                              state.stagingDir))}]
  /\ UNCHANGED <<fs, sync, staged>>
  /\ UploadIdle

NextUpload ==
  \/ \E uploadId \in UploadIds, hdr \in ChunkHeaders :
       PostChunk(uploadId, hdr[1], hdr[2])
  \/ \E r \in 1 .. MaxRequests, permitted \in BOOLEAN :
       HasPermission(r, permitted)
  \/ \E r \in 1 .. MaxRequests, linuxUser \in {"alice", ""} :
       GetLinuxUser(r, linuxUser)
  \/ \E r \in 1 .. MaxRequests, env \in UploadEnvs : WriteChunk(r, env)
  \/ \E r \in 1 .. MaxRequests : ChunkWritten(r)
  \/ \E r \in 1 .. MaxRequests : PublishAssemble(r)
  \/ \E r \in 1 .. MaxRequests : AssembleReplied(r)
  \/ \E uploadId \in UploadIds : DeleteCancel(uploadId)
  \/ \E r \in 1 .. MaxRequests : PublishDelete(r)

SpecUpload == InitSync /\ [][NextUpload]_vars

(***************************************************************************)
(* The upload GC.  Time is Date.now() in milliseconds.                     *)
(*                                                                         *)
(*   SpecGc   chunks arriving, uploads completed and cancelled, the clock  *)
(*            advancing, the GC sweeping                                   *)
(***************************************************************************)

UPLOAD_TTL_MS == 7200000
GC_INTERVAL_MS == 300000

\* The number of times the clock advances, and of uploads created.
MaxAdvances == 3
MaxUploads == 3

\* By how much the clock advances between two events: a GC interval, the
\* TTL.
Delays == {GC_INTERVAL_MS, UPLOAD_TTL_MS}

GcUploadIds == {U1, U2}

\* X-Chunk-Index and X-Total-Chunks: those of ChunkHeaders the route
\* accepts that do not complete an upload at once.
GcChunkHeaders == {h \in ChunkHeaders : h[1] < h[2] /\ h[2] > 1}

GcIdle == UNCHANGED <<taskVars, credVars, passwd, staged, loop>>

\* The store without the entry of id; the object goes with it, as nothing
\* else refers to it.
Forgotten(b, ids) ==
  [b EXCEPT
     !.uploadState = [k \in DOMAIN @ \ ids |-> @[k]],
     !.objects = [n \in DOMAIN @ \ {b.uploadState[id] : id \in ids} |-> @[n]]]

\* The UploadState of a first chunk; heard is the time the latest chunk of
\* the upload was received, which the code does not keep.
GcNewState(totalChunks, now) ==
  [received |-> {}, totalChunks |-> totalChunks, createdAt |-> now,
   heard |-> now]

\* The chunk route for a permitted request whose chunk the worker writes:
\* the state is looked up or created, the index recorded, and the upload
\* forgotten once as many indices are recorded as the request declares.
GcChunk(id, chunkIndex, totalChunks) ==
  /\ getUpload(backend, id) # 0 \/ backend.gc.serial < MaxUploads
  /\ LET known == getUpload(backend, id)
         serial == IF known = 0 THEN backend.gc.serial + 1 ELSE known
         state == IF known = 0 THEN GcNewState(totalChunks, backend.gc.now)
                  ELSE backend.objects[known]
         after == [state EXCEPT !.received = @ \cup {chunkIndex},
                                !.heard = backend.gc.now]
         stored == [setUpload(backend, id, serial) EXCEPT
                      !.objects = (serial :> after) @@ @,
                      !.gc.serial = IF known = 0 THEN serial ELSE @]
     IN backend' = IF Cardinality(after.received) < totalChunks THEN stored
                   ELSE Forgotten(stored, {id})
  /\ GcIdle

\* The cancel route for an upload the store holds.
GcCancel(id) ==
  /\ getUpload(backend, id) # 0
  /\ backend' = Forgotten(backend, {id})
  /\ GcIdle

\* Time passes.
Advance(d) ==
  /\ backend.gc.advances < MaxAdvances
  /\ backend' = [backend EXCEPT !.gc.now = @ + d, !.gc.advances = @ + 1]
  /\ GcIdle

\* state.createdAt < cutoff, with cutoff = Date.now() - UPLOAD_TTL_MS
stale(state, now) == state.createdAt < now - UPLOAD_TTL_MS

\* The callback of the interval timer: every stale entry is deleted from
\* the store and handed to onStale.
Sweep ==
  /\ LET ids == {id \in DOMAIN backend.uploadState :
                   stale(backend.objects[backend.uploadState[id]],
                         backend.gc.now)}
         serials == {backend.uploadState[id] : id \in ids}
         before == backend.gc.calls
     IN /\ ids # {}
        /\ backend' = [Forgotten(backend, ids) EXCEPT
             !.gc.calls = [n \in DOMAIN before \cup serials |->
                            (IF n \in DOMAIN before THEN before[n] ELSE 0)
                              + (IF n \in serials THEN 1 ELSE 0)],
             !.gc.evictions = @ \cup
                {[id |-> id, serial |-> backend.uploadState[id],
                  createdAt |->
                    backend.objects[backend.uploadState[id]].createdAt,
                  heard |-> backend.objects[backend.uploadState[id]].heard,
                  at |-> backend.gc.now] : id \in ids}]
  /\ GcIdle

NextGc ==
  \/ \E id \in GcUploadIds, h \in GcChunkHeaders : GcChunk(id, h[1], h[2])
  \/ \E id \in GcUploadIds : GcCancel(id)
  \/ \E d \in Delays : Advance(d)
  \/ Sweep

SpecGc == InitSync /\ [][NextGc]_vars

(***************************************************************************)
(* Request/reply: one reply for every request                              *)
(***************************************************************************)

\* C11: every list, stat, read and write-chunk request gets exactly one
\* reply, whichever path its handler takes: request or metadata that cannot
\* be decoded, invalid path, unknown account, failing credential call,
\* failing operation, success.
C11_OneReply == sync.kind # "none" => Len(sync.sent) = 1

\* A write-chunk request whose credential setup failed was answered.
C11_Witness ==
  /\ sync.kind = "write-chunk"
  /\ sync.trace = <<"lookup", "setcred">>
  /\ Len(sync.sent) = 1
  /\ ~sync.sent[1].ok

(***************************************************************************)
(* Assemble                                                                *)
(***************************************************************************)

RECURSIVE ChunkData(_, _, _)
\* The contents of the chunk files from the i-th on, one after the other,
\* as filesystem f holds them.
ChunkData(f, chunks, i) ==
  IF i > Len(chunks) THEN << >>
  ELSE f[Clean(chunks[i])].data \o ChunkData(f, chunks, i + 1)

\* The latest operation was an assemble job that completed.
Assembled == op.kind = "assemble" /\ op.status = "completed"

\* The destination of the latest assemble job is one of its chunks.
DestIsChunk ==
  \E i \in 1 .. Len(op.args.chunks) :
    Clean(op.args.chunks[i]) = Clean(op.args.destFile)

\* C12: after a successful assemble the destination holds the contents of
\* the chunk files, as they were when the job started, in the order of the
\* list, whatever it held before and however many chunks there are.
C12_AssembleConcatenates ==
  Assembled =>
    /\ Clean(op.args.destFile) \in DOMAIN fs
    /\ fs[Clean(op.args.destFile)].data
         = ChunkData(op.before, op.args.chunks, 1)

\* C12 for a destination that is none of the chunks.
C12_DistinctDest ==
  (Assembled /\ ~DestIsChunk) =>
    /\ Clean(op.args.destFile) \in DOMAIN fs
    /\ fs[Clean(op.args.destFile)].data
         = ChunkData(op.before, op.args.chunks, 1)

\* The latest operation was an assemble job with a staging directory.
StagedAssemble == op.kind = "assemble" /\ op.args.stagingDir # << >>

\* Everything the staging directory held when the job started is in place.
StagingKept ==
  \A q \in Subtree(op.before, Clean(op.args.stagingDir)) : q \in DOMAIN fs

\* C13: after an assemble attempt the staging directory has been removed
\* if and only if the attempt succeeded: a completed job has no staging
\* directory left, a failed one leaves it and every chunk file in place.
C13_StagingRemovedIffSuccess ==
  StagedAssemble =>
    /\ op.status = "completed" => ~Exists(fs, Clean(op.args.stagingDir))
    /\ op.status = "failed" => StagingKept

\* C13 for the failed attempts alone.
C13_FailureKeepsStaging ==
  (StagedAssemble /\ op.status = "failed") => StagingKept

(***************************************************************************)
(* Move and rename                                                         *)
(***************************************************************************)

\* Source and destination path of the latest move.
MoveSrc == Clean(op.args.src)
MoveDst == Join(op.args.dstDir, <<Base(op.args.src)>>)

\* Where the move puts the entry q of the source tree.
MovedTo(q) == MoveDst \o SubSeq(q, Len(MoveSrc) + 1, Len(q))

\* The latest operation was a move whose rename step failed with EXDEV:
\* source and destination directory are there, on different devices, and
\* the destination name is free.
CrossDeviceMove ==
  /\ op.kind = "move"
  /\ op.args.xdev
  /\ LstatErr(op.before, MoveSrc) = ""
  /\ LstatErr(op.before, MoveDst) # ""
  /\ CreateErr(op.before, MoveDst) = ""

\* The source tree is as it was before the move.
SourceIntact ==
  \A q \in Subtree(op.before, MoveSrc) : q \in DOMAIN fs /\ fs[q] = op.before[q]

\* The destination tree is the source tree as it was: the same entries
\* with the same kind and the same bytes.
DestinationEqualsSource ==
  /\ \A q \in Subtree(op.before, MoveSrc) :
       /\ MovedTo(q) \in DOMAIN fs
       /\ fs[MovedTo(q)].kind = op.before[q].kind
       /\ fs[MovedTo(q)].data = op.before[q].data
  /\ Subtree(fs, MoveDst) = {MovedTo(q) : q \in Subtree(op.before, MoveSrc)}

\* C14: when the rename step of move fails with a cross-device error, a
\* move that succeeds has copied the whole source tree to the destination
\* and removed the source, and a move whose copy fails reports the failure
\* and leaves the source complete and unmodified.
C14_CrossDeviceMove ==
  CrossDeviceMove =>
    IF op.err = ""
      THEN DestinationEqualsSource /\ Subtree(fs, MoveSrc) = {}
      ELSE SourceIntact

\* A cross-device move whose copy failed after part of the tree was copied.
C14_Witness ==
  /\ CrossDeviceMove
  /\ op.err # ""
  /\ MoveDst \in DOMAIN fs

\* C15: move fails with AlreadyExists whenever the destination directory
\* already holds an entry with the base name of the source, and then
\* changes nothing; a move that succeeds has used that very name.
C15_MoveConflict ==
  op.kind = "move" =>
    /\ Exists(op.before, MoveDst) =>
         mapOsErr(op.err).code = "EEXIST" /\ fs = op.before
    /\ op.err = "" => op.path = MoveDst

\* A move of /d/f.txt into /e, which holds another f.txt, was refused.
C15_Witness ==
  /\ op.kind = "move"
  /\ MoveSrc # MoveDst
  /\ Exists(op.before, MoveSrc)
  /\ Exists(op.before, MoveDst)
  /\ op.err = "EEXIST"

\* The path the latest rename was to give the entry.
RenameDst == Join(Dir(op.args.path), op.args.newName)

\* C16: rename fails with AlreadyExists whenever an entry with the new
\* name already exists in the parent directory of the path, and then
\* changes nothing.
C16_RenameConflict ==
  (op.kind = "rename" /\ Exists(op.before, RenameDst)) =>
    mapOsErr(op.err).code = "EEXIST" /\ fs = op.before

\* A rename of /d/f.txt to sub, which exists beside it, was refused.
C16_Witness ==
  /\ op.kind = "rename"
  /\ Clean(op.args.path) # RenameDst
  /\ Exists(op.before, Clean(op.args.path))
  /\ Exists(op.before, RenameDst)
  /\ op.err = "EEXIST"

\* The name is empty, ".", ".." or holds a path separator.
BadNewName(name) ==
  \/ name = << >>
  \/ name = <<Dot>>
  \/ name = <<DotDot>>
  \/ Len(name) > 1
  \/ \E i \in 1 .. Len(name) : name[i] = Slash

MkdirCandidate(parent, name, k) ==
  LET nm == IF name = << >> THEN <<<<"New Folder">>>> ELSE name IN
    IF k = 0 THEN Join(parent, nm) ELSE Join(parent, Numbered(nm, k))

\* The candidates of the latest mkdir that existed before it, by number.
TakenBefore(k) ==
  Exists(op.before, MkdirCandidate(op.args.parent, op.args.name, k))

\* The latest operation was a mkdir that reported success.
MkdirDone == op.kind = "mkdir" /\ op.err = ""

\* The path the latest mkdir returned is the first free candidate.
ReturnsFirstFree ==
  \E k \in 0 .. (MaxCalls + MaxCandidates) :
    /\ op.path = MkdirCandidate(op.args.parent, op.args.name, k)
    /\ ~TakenBefore(k)
    /\ \A j \in 0 .. (k - 1) : TakenBefore(j)

\* The successful calls with the same parent and name returned pairwise
\* distinct paths.
DistinctPaths ==
  \A i, j \in DOMAIN mkdirs :
    (i # j /\ mkdirs[i].parent = mkdirs[j].parent
           /\ mkdirs[i].name = mkdirs[j].name)
      => mkdirs[i].path # mkdirs[j].path

\* C18: a successful mkdir(parent, name) creates and returns the first
\* candidate name, name (1), name (2), ... that did not exist, an empty
\* name standing for New Folder; successive successful calls with the same
\* parent and name return pairwise distinct paths.
C18_MkdirFirstFree ==
  /\ MkdirDone => ReturnsFirstFree /\ IsDirAt(fs, op.path)
  /\ DistinctPaths

\* C18 for the calls that find a free name among the candidates doMkdir
\* looks up (name and the numbers below the limit).
C18_BelowLimit ==
  (MkdirDone /\ \E k \in 0 .. (MaxCandidates - 1) : ~TakenBefore(k)) =>
    ReturnsFirstFree /\ IsDirAt(fs, op.path)

\* C19: when the name and every numbered candidate up to the limit exist,
\* mkdir fails; it never reports success with a path that existed before
\* the call.
C19_MkdirGivesUp ==
  /\ (op.kind = "mkdir" /\ \A k \in 0 .. MaxCandidates : TakenBefore(k))
       => op.err # ""
  /\ MkdirDone => ~Exists(op.before, op.path)

\* Every entry the latest copy created or changed lies under the path it
\* reports.
WritesUnderDst ==
  \A q \in DOMAIN fs :
    (q \notin DOMAIN op.before \/ fs[q] # op.before[q]) => IsPrefix(op.path, q)

\* C20: copy writes only under a destination path that did not exist when
\* it started, also when every candidate up to the limit is taken.
C20_CopyFreshDestination ==
  op.kind = "copy" =>
    /\ WritesUnderDst
    /\ op.err = "" => ~Exists(op.before, op.path)

\* C20 for the copies that find a free name among the candidates uniqueDst
\* looks up.
C20_BelowLimit ==
  (op.kind = "copy" /\ op.err = ""
     /\ \E q \in DOMAIN fs : q \notin DOMAIN op.before) =>
    ~Exists(op.before, op.path)

(***************************************************************************)
(* Chunk writes: what the staging directory holds                          *)
(***************************************************************************)

\* The staged file of the chunk k holds data.
StagedFileHolds(k, data) ==
  /\ chunkPathOf(k) \in DOMAIN fs
  /\ fs[chunkPathOf(k)].kind = "file"
  /\ fs[chunkPathOf(k)].data = data

\* An upload id without a separator.
PlainId(uploadId) == Len(uploadId) = 1

\* C21: after any sequence of chunk writes, the staged file of every
\* (uploadId, chunkIndex) holds exactly the payload of the latest
\* successful write to that pair, whatever was written to other pairs.
C21_StagedHoldsLatest ==
  \A k \in DOMAIN staged : StagedFileHolds(k, staged[k])

\* The same, as long as every upload id written so far is a plain name.
C21_PlainIds ==
  (\A k \in DOMAIN staged : PlainId(k.uploadId))
    => \A k \in DOMAIN staged : StagedFileHolds(k, staged[k])

\* A successful chunk write leaves the staging directory in place, and as
\* it was when it existed before.
C21_StagingReused ==
  [][(sync'.kind = "write-chunk" /\ RepliedOk(sync'.sent) /\ fs' # fs)
       => /\ IsDirAt(fs', stagingDirOf(sync'.req.meta))
          /\ Exists(fs, stagingDirOf(sync'.req.meta))
               => fs'[stagingDirOf(sync'.req.meta)]
                    = fs[stagingDirOf(sync'.req.meta)]]_vars

\* Two successful writes to one pair, the second with another payload.
C21_Overwritten ==
  /\ sync.kind = "write-chunk" /\ RepliedOk(sync.sent)
  /\ StagedFileHolds(StagedKey(sync.req.meta), <<9>>)
  /\ Cardinality(DOMAIN staged) >= 2

(***************************************************************************)
(* Accounts: who an operation runs as                                      *)
(***************************************************************************)

\* A unit of work that is not impersonated: chmod, chown, or an operation
\* whose account name is empty.
NotImpersonated(u) == unit[u].kind = "direct" \/ unit[u].user = ""

\* The latest job is a chmod or chown, or carries no account name.
RootJob ==
  /\ op.kind = "job"
  /\ \/ op.args.subject \in {"nasx.root.fs.chmod", "nasx.root.fs.chown"}
     \/ op.args.task.linuxUsername = ""

\* A handling that looked up no account and made no credential call, and
\* ran its operation, if at all, as root.
RanDirectly(trace, ran) ==
  /\ \A i \in 1 .. Len(trace) : trace[i] \notin {"lookup", "setcred"}
  /\ ran \in {NoIdentity, RootCtx}

\* C22: chmod and chown, whatever account name they carry, and operations
\* with an empty account name run directly, without a credential call of
\* their own, and execute as root.
C22_RunsAsRoot ==
  \A u \in Units :
    NotImpersonated(u) => ~unit[u].window /\ unit[u].observed \subseteq {0}

\* The part of C22 about the unit itself: it is never given a privileged
\* window and never locks a thread.
C22_NoWindow ==
  \A u \in Units : NotImpersonated(u) => ~unit[u].window /\ unit[u].thr = 0

\* The part of C22 about the handlers, one handling at a time: a chmod or
\* chown job with any account name, and a job or request with an empty
\* one, looks up no account and makes no credential call.
C22_NoLookupNoSetcred ==
  /\ RootJob => RanDirectly(op.trace, op.ran)
  /\ (sync.kind # "none" /\ sync.req.linuxUsername = "")
       => RanDirectly(sync.trace, sync.ran)

\* A chown job that names an unknown account has completed, run as root.
C22_ChownForGhost ==
  /\ op.kind = "job" /\ op.args.subject = "nasx.root.fs.chown"
  /\ op.args.task.linuxUsername = "ghost"
  /\ op.status = "completed" /\ op.ran = RootCtx

\* The identity the account database gives the name now, NoIdentity when
\* it cannot be resolved.
IdentityOf(name) ==
  IF name = "" THEN RootCtx
  ELSE IF name \notin DOMAIN passwd THEN NoIdentity
  ELSE IF ~passwd[name].groupsOk THEN NoIdentity
  ELSE [uid |-> passwd[name].uid, gid |-> passwd[name].gid,
        gids |-> passwd[name].gids]

\* The job just handled ran an operation under an account.
JobRanUnderAccount ==
  /\ op'.n # op.n /\ op'.kind = "job" /\ op'.ran # NoIdentity
  /\ op'.args.subject \notin {"nasx.root.fs.chmod", "nasx.root.fs.chown"}

\* C23: every job and request resolves its account name anew: the
\* operation runs under the uid, gid and group list the account database
\* holds for the name when the request is handled, never under those it
\* held for an earlier request, and what it creates belongs to that uid.
C23_ResolvedAnew ==
  [][/\ JobRanUnderAccount
          => /\ op'.ran = IdentityOf(op'.args.task.linuxUsername)
             /\ (op'.status = "completed" /\ op'.args.subject = "nasx.root.fs.mkdir")
                  => fs'[op'.result].uid = op'.ran.uid
     /\ (sync' # sync /\ sync'.ran # NoIdentity)
          => sync'.ran = IdentityOf(sync'.req.linuxUsername)]_vars

\* A request for alice ran under her first identity, the database was
\* changed, and a later job for alice ran under the new one.
C23_Witness ==
  /\ sync.kind = "stat" /\ sync.req.linuxUsername = "alice"
  /\ sync.ran = Passwd.alice
  /\ passwd["alice"] = AliceRemapped
  /\ op.kind = "job" /\ op.args.task.linuxUsername = "alice"
  /\ op.status = "completed" /\ op.ran.uid = AliceRemapped.uid

(***************************************************************************)
(* Errors: the kind the caller receives                                    *)
(***************************************************************************)

\* The kind of the error taxonomy an fsError code stands for.
KindOf(code) ==
  CASE code = "EACCES" -> "PermissionDenied"
    [] code = "ENOENT" -> "NotFound"
    [] code = "EEXIST" -> "AlreadyExists"
    [] code = "ERR"    -> "Generic"
    [] OTHER           -> "none"

\* The kind resolving the name fails with now, "none" when it resolves.
ResolveFailure(name) ==
  IF name = "" THEN "none"
  ELSE IF name \notin DOMAIN passwd THEN "NotFound"
  ELSE IF ~passwd[name].groupsOk THEN "LookupFailed"
  ELSE "none"

\* The request just handled got as far as resolving its account.
RequestResolved == sync' # sync /\ sync'.trace # << >>

\* The job just handled got as far as resolving its account.
JobResolved ==
  /\ op'.n # op.n /\ op'.kind = "job" /\ op'.trace # << >>
  /\ op'.args.subject \notin {"nasx.root.fs.chmod", "nasx.root.fs.chown"}

\* C24: resolving the name of an account that does not exist fails with
\* an error of kind NotFound, a failure to enumerate its groups with one of
\* kind LookupFailed, and that kind is what the error reply or the failed
\* job carries.
C24_LookupErrorsClassified ==
  [][/\ (RequestResolved /\ ResolveFailure(sync'.req.linuxUsername) # "none")
          => KindOf(sync'.sent[1].code)
               = ResolveFailure(sync'.req.linuxUsername)
     /\ (JobResolved /\ ResolveFailure(op'.args.task.linuxUsername) # "none")
          => KindOf(op'.fsErr.code)
               = ResolveFailure(op'.args.task.linuxUsername)]_vars

\* What the caller receives instead: a failure of kind Generic in both
\* cases, told apart by its message only.
ResolveMessage(name) ==
  IF ResolveFailure(name) = "NotFound" THEN "user: unknown user"
  ELSE "groups: lookup failed"

C24_LookupErrorsGeneric ==
  [][/\ (RequestResolved /\ ResolveFailure(sync'.req.linuxUsername) # "none")
          => /\ ~sync'.sent[1].ok
             /\ KindOf(sync'.sent[1].code) = "Generic"
             /\ sync'.sent[1].error = ResolveMessage(sync'.req.linuxUsername)
             /\ sync'.trace = <<"lookup">>
     /\ (JobResolved /\ ResolveFailure(op'.args.task.linuxUsername) # "none")
          => /\ op'.status = "failed"
             /\ KindOf(op'.fsErr.code) = "Generic"
             /\ op'.events[1].error
                  = ResolveMessage(op'.args.task.linuxUsername)
             /\ op'.trace = <<"lookup">> /\ fs' = fs]_vars

\* The kind the taxonomy gives an error of the operating system.
KindOfErrno(errno) ==
  CASE errno \in {"EACCES", "EPERM"}     -> "PermissionDenied"
    [] errno = "ENOENT"                  -> "NotFound"
    [] errno \in {"EEXIST", "ENOTEMPTY"} -> "AlreadyExists"
    [] OTHER                             -> "Generic"

\* The reply of the latest request carries the kind of the error errno,
\* and the underlying message when the kind is Generic.
ReplyCarries(errno) ==
  /\ sync.sent # << >> /\ ~sync.sent[1].ok
  /\ KindOf(sync.sent[1].code) = KindOfErrno(errno)
  /\ KindOfErrno(errno) = "Generic" => sync.sent[1].error = errno

\* The latest job failed with the kind of the error errno, and its event
\* carries the message of that error.
JobCarries(errno) ==
  /\ op.status = "failed"
  /\ KindOf(op.fsErr.code) = KindOfErrno(errno)
  /\ op.events[1].error = op.fsErr.message
  /\ KindOfErrno(errno) = "Generic" => op.fsErr.message = errno

\* The latest operation was a job handled by handleTask.
JobHandled == op.kind \in {"job", "assemble", "router-rename"} /\ ~op.rejected

\* C25: the error kind an operation returns is a function of the error
\* of the operating system (permission errors give PermissionDenied, a
\* missing path NotFound, an existing destination or a directory that is
\* not empty AlreadyExists, everything else Generic with the underlying
\* message), and that kind reaches the reply or the job event.
C25_KindFollowsErrno ==
  /\ (sync.kind # "none" /\ sync.errno # "") => ReplyCarries(sync.errno)
  /\ (JobHandled /\ op.errno # "") => JobCarries(op.errno)

\* The same for every operation but the chunk write.
C25_ExceptWriteChunk ==
  /\ (sync.kind \notin {"none", "write-chunk"} /\ sync.errno # "")
       => ReplyCarries(sync.errno)
  /\ (JobHandled /\ op.errno # "") => JobCarries(op.errno)

\* A list, stat or read request the filesystem refused was answered
\* with PermissionDenied.
C25_Refused ==
  /\ sync.kind \in {"list", "stat", "read"} /\ sync.errno = "EACCES"
  /\ sync.sent[1].code = "EACCES"

(***************************************************************************)
(* Reading: the bytes a read returns                                       *)
(***************************************************************************)

\* The first n bytes of data.
FirstBytes(data, n) == [i \in 1 .. n |-> data[i]]

\* The smaller of two numbers.
Min(a, b) == IF a <= b THEN a ELSE b

\* The latest request was a read that reached the file at its path.
ReadOfFile ==
  /\ sync.kind = "read" /\ sync.ran # NoIdentity
  /\ Clean(sync.req.path) \in DOMAIN fs
  /\ fs[Clean(sync.req.path)].kind = "file"

\* The file of the latest read and what the reply carried.
ReadFile == fs[Clean(sync.req.path)].data
ReadReply == sync.sent[1]

\* C26: read returns the first min(size, cap) bytes of the file: all of
\* them when the size is at most the cap, the cap included, and exactly
\* cap bytes, without an error, when the file is larger.
C26_ReadReturnsPrefix ==
  ReadOfFile =>
    /\ sync.errno \in {"", "EACCES"}
    /\ sync.errno = ""
         => /\ ReadReply.raw /\ ReadReply.ok
            /\ ReadReply.result
                 = FirstBytes(ReadFile, Min(Len(ReadFile), MaxReadBytes))
            /\ Len(ReadFile) <= MaxReadBytes => ReadReply.result = ReadFile
            /\ Len(ReadFile) > MaxReadBytes
                 => Len(ReadReply.result) = MaxReadBytes

\* A file one byte over the cap was read: the reply holds cap bytes.
C26_Witness ==
  /\ ReadOfFile /\ sync.errno = ""
  /\ Len(ReadFile) = MaxReadBytes + 1
  /\ Len(ReadReply.result) = MaxReadBytes

\* A file of exactly cap bytes was read whole.
C26_AtCap ==
  /\ ReadOfFile /\ sync.errno = ""
  /\ Len(ReadFile) = MaxReadBytes /\ ReadReply.result = ReadFile

(***************************************************************************)
(* The privileged window: the order of its calls                           *)
(***************************************************************************)

\* The calls of a window that runs to its end, in order.
WindowOrder ==
  <<"setgroups", "setresgid", "setresuid", "fn", "restoreuid", "restoregid",
    "restoregroups">>

\* The calls unit u has made so far are the first calls of WindowOrder.
InWindowOrder(u) ==
  /\ Len(unit[u].calls) <= Len(WindowOrder)
  /\ \A i \in 1 .. Len(unit[u].calls) : unit[u].calls[i].call = WindowOrder[i]

\* Every call of unit u before its i-th has succeeded.
AllOkBefore(u, i) == \A j \in 1 .. (i - 1) : unit[u].calls[j].ok

\* C27: inside a privileged window the calls happen in the order
\* supplementary groups, group id, effective user id, the unit of work,
\* restore of the user id, of the group id, of the supplementary groups;
\* the user id is dropped, and the work run, only after the calls before
\* have succeeded, and a window whose setup succeeded restores all three
\* whether the work succeeded or failed.
C27_WindowOrder ==
  \A u \in Units :
    /\ InWindowOrder(u)
    /\ \A i \in 1 .. Len(unit[u].calls) :
         unit[u].calls[i].call \in {"setresgid", "setresuid", "fn"}
           => AllOkBefore(u, i)
    /\ (unit[u].pc = "done" /\ unit[u].window /\ unit[u].ran)
         => Len(unit[u].calls) = Len(WindowOrder)

\* A window whose work failed has made all seven calls.
C27_Witness ==
  \E u \in Units :
    /\ unit[u].pc = "done" /\ unit[u].window /\ unit[u].fnres = "fnerr"
    /\ Len(unit[u].calls) = Len(WindowOrder)

(***************************************************************************)
(* The upload routes: assemble jobs and cancels                            *)
(***************************************************************************)

\* The events of a kind among those of the backend.
EventsOf(kind) == {e \in backend.events : e.kind = kind}

\* C28: at most one assemble job is published per uploadId, under every
\* interleaving of concurrent chunk requests and of repeated requests for
\* the same chunk index.
C28_OneAssemblePerUpload ==
  \A e1, e2 \in EventsOf("fs.assemble") : e1.uploadId = e2.uploadId => e1 = e2

\* C28, the repeated request alone: no two requests that hold the same
\* UploadState object publish an assemble job.
C28_OneAssemblePerState ==
  \A e1, e2 \in EventsOf("fs.assemble") :
    backend.reqs[e1.r].state = backend.reqs[e2.r].state => e1 = e2

\* C29: cancelled is terminal.  No chunk write and no assemble job of an
\* upload reaches the worker once a cancel of the upload has been answered.
C29_CancelTerminal ==
  \A e \in EventsOf("write-chunk") \cup EventsOf("fs.assemble") :
    e.cancelled = {}

\* C29, the request in flight: a chunk request received before a cancel of
\* its upload was answered sends no chunk and publishes no assemble job
\* after that answer.
C29_InFlightStopped ==
  \A e \in EventsOf("write-chunk") \cup EventsOf("fs.assemble") :
    \A c \in e.cancelled : c < e.r

\* The path at which the worker stages the index i of the upload of an
\* assemble event.
StagedPath(e, i) ==
  chunkPathOf([uploadId |-> e.uploadId, chunkIndex |-> i,
               destDir |-> backend.objects[backend.reqs[e.r].state].destDir])

\* C30: an assemble job is queued only when the worker has written every
\* chunk index from 0 to the declared total minus 1, and it lists the chunk
\* paths of these indices in index order, each the path at which the worker
\* staged the index.
C30_AllWrittenInOrder ==
  \A e \in EventsOf("fs.assemble") :
    /\ \A i \in 0 .. (e.body.declared - 1) : i \in e.body.written
    /\ Len(e.body.job.task.chunks) = e.body.declared
    /\ \A i \in 0 .. (e.body.declared - 1) :
         e.body.job.task.chunks[i + 1] = StagedPath(e, i)

\* C30, the paths alone: the chunk paths of an assemble job are in index
\* order and each is the path at which the worker stages that index.
C30_PathsAsStaged ==
  \A e \in EventsOf("fs.assemble") :
    \A i \in 1 .. Len(e.body.job.task.chunks) :
      e.body.job.task.chunks[i] = StagedPath(e, i - 1)

\* C30, requests that agree: when every chunk request received declares
\* the same total, an assemble job is queued only when the worker has
\* written every index below that total, and it lists that many paths.
C30_WhenTotalsAgree ==
  (\A r1, r2 \in DOMAIN backend.reqs :
     backend.reqs[r1].route = "chunk" /\ backend.reqs[r2].route = "chunk"
       => backend.reqs[r1].totalChunks = backend.reqs[r2].totalChunks)
  => \A e \in EventsOf("fs.assemble") :
       /\ \A i \in 0 .. (e.body.declared - 1) : i \in e.body.written
       /\ Len(e.body.job.task.chunks) = e.body.declared

\* An assemble job of two chunks was published after both were written.
C30_Assembled ==
  \E e \in EventsOf("fs.assemble") :
    e.body.declared = 2 /\ e.body.written = {0, 1}
      /\ Len(e.body.job.task.chunks) = 2

(***************************************************************************)
(* The download route: errors of the worker                                *)
(***************************************************************************)

\* The worker was asked and answered the read with an error envelope.
ReadFailed == backend.download.asked /\ ~sync.sent[1].ok

\* The worker was asked and answered the read with the bytes of the file.
ReadSucceeded == backend.download.asked /\ sync.sent[1].ok

\* C31: a read that fails in the worker is surfaced to the caller of the
\* download as an error, and the error envelope of the worker is never
\* delivered as the content of the file.
C31_ReadErrorSurfaced ==
  ReadFailed =>
    /\ backend.download.status # 200
    /\ backend.download.body # Marshal(sync.sent[1])

\* C31, the other direction: the content of a file that was read is never
\* taken for an error; when the reply arrives the download answers 200 with
\* the bytes the worker sent.
C31_ContentNotAnError ==
  ReadSucceeded /\ backend.download.status # 500 =>
    /\ backend.download.status = 200
    /\ backend.download.body = sync.sent[1].result

\* A file that holds the text of an error envelope was downloaded as
\* content.
C31_EnvelopeAsContent ==
  /\ ReadSucceeded
  /\ backend.download.status = 200
  /\ backend.download.body = Marshal(replyErr(mapOsErr("ENOENT")))

\* C31: a read of a path that does not exist was answered 200.
C31_NotFoundAnswered200 ==
  /\ ReadFailed
  /\ sync.sent[1].code = "ENOENT"
  /\ backend.download.status = 200

(***************************************************************************)
(* The job ledger                                                          *)
(***************************************************************************)

\* The status of the ledger entry of job id j changes from a status in
\* from to one in to.
LedgerStep(j, from, to) ==
  /\ j \in DOMAIN backend.ledger
  /\ backend.ledger[j] \in from
  /\ backend'.ledger[j] \in to

JobIds == {JobIdOf(m) : m \in Msgs}

\* C32: completed is absorbing in the job ledger.  Once the status of a job
\* is completed, no event and no restart changes it to failed or back to
\* pending, whatever redeliveries of the job message occur.
C32_CompletedAbsorbing ==
  [][\A j \in JobIds : ~LedgerStep(j, {"completed"}, {"failed", "pending"})]_vars

\* C32, the restart alone: a restart of the backend leaves every completed
\* entry completed.
C32_RestartKeepsCompleted ==
  [][backend'.restarts # backend.restarts =>
       \A j \in JobIds : ~LedgerStep(j, {"completed"}, {"failed", "pending"})]_vars

\* C32, pending: no entry goes back to pending.
C32_NeverBackToPending ==
  [][\A j \in JobIds :
       ~LedgerStep(j, {"completed", "failed"}, {"pending"})]_vars

\* C32: a job recorded as completed was delivered again.
C32_Redelivered ==
  \E m \in Msgs :
    /\ cur = m
    /\ JobIdOf(m) \in DOMAIN backend.ledger
    /\ backend.ledger[JobIdOf(m)] = "completed"

\* The ledger entry of job id j is pending.
Pending(j) == j \in DOMAIN backend.ledger /\ backend.ledger[j] = "pending"

\* The ledger entry of job id j is completed or failed.
Settled(j) ==
  j \in DOMAIN backend.ledger /\ backend.ledger[j] \in {"completed", "failed"}

\* C33: every job for which publishJob created a ledger entry eventually
\* leaves the pending state, its status becoming completed or failed through
\* a published event, provided the broker, the worker and the backend keep
\* running and deliver messages fairly.
C33_LeavesPending == \A j \in JobIds : Pending(j) ~> Settled(j)

\* Both jobs were published and the event of each was applied, one
\* completed and one failed.
C33_Witness ==
  /\ backend.inbox = << >>
  /\ \E j, k \in JobIds :
       /\ j \in DOMAIN backend.ledger /\ backend.ledger[j] = "completed"
       /\ k \in DOMAIN backend.ledger /\ backend.ledger[k] = "failed"

\* C34: the pull loop is sequential.  At most one handler runs at a time,
\* and while one runs the loop is inside it and not at a fetch; after a
\* fetch timeout the loop is at a fetch again; after any other fetch error
\* it is in its backoff or at a fetch again with one second slept; it has
\* stopped exactly when the connection was closed.
C34_Sequential ==
  /\ Cardinality(loop.running) <= 1
  /\ loop.running # {} => loop.pc = "handle" /\ loop.running = {cur}
  /\ loop.pc = "handle" => loop.running # {}
  /\ loop.err = "timeout" => loop.pc = "fetch"
  /\ loop.err = "other" =>
       \/ loop.pc = "backoff"
       \/ loop.pc = "fetch" /\ loop.slept = BackoffSeconds
  /\ loop.pc = "backoff" => loop.err = "other"
  /\ loop.pc = "stopped" <=> loop.err = "closed"

\* A handler is running while another message waits for its delivery.
C34_OtherMessageWaits ==
  /\ loop.running # {}
  /\ \E m \in Msgs : /\ m \notin loop.running
                      /\ queue[m].state = "pending"
                      /\ queue[m].deliveries < MaxDeliver

\* The restore calls of a window that failed.
FailedRestores(u) ==
  {i \in DOMAIN unit[u].calls :
     /\ unit[u].calls[i].call \in {"restoreuid", "restoregid", "restoregroups"}
     /\ ~unit[u].calls[i].ok}

\* C35: runAs reports success only if the effective user id, the group id
\* and the supplementary groups of the thread were all restored to root
\* after the unit of work: a window one of whose restore calls failed does
\* not return success.
C35_RestoreFailureSurfaced ==
  \A u \in Units :
    (unit[u].window /\ unit[u].pc = "done" /\ unit[u].ret = "ok")
      => FailedRestores(u) = {}

\* A restore call of a window has failed and the window has returned.
C35_RestoreFailed ==
  \E u \in Units :
    unit[u].window /\ unit[u].pc = "done" /\ FailedRestores(u) # {}

\* The last operation copied a directory to a destination inside it.
CopiedIntoItself ==
  /\ op.kind = "copy"
  /\ IsDirAt(op.before, op.args.src)
  /\ IsPrefix(op.args.src, op.args.dstDir)

\* The paths the entries of the tree under src have when copied to dst.
CopyImages(f, src, dst) ==
  {dst \o SubSeq(q, Len(src) + 1, Len(q)) : q \in Subtree(f, src)}

\* C36: a copy of a directory into itself or into a directory inside it
\* ends, and it creates no ever deeper nested copies: every entry it
\* creates is the copy of an entry the source had when the copy began.
C36_NoNestedCopies ==
  CopiedIntoItself
    => (DOMAIN fs \ DOMAIN op.before)
         \subseteq CopyImages(op.before, op.args.src, op.path)

\* C36, what ends the recursion: no path is longer than the kernel accepts,
\* and a copy that met the limit reports it.
C36_EndsAtPathLimit ==
  /\ \A q \in DOMAIN fs : Len(q) <= MaxPathLen
  /\ (CopiedIntoItself /\ op.err # "")
       => op.err \in {"ENAMETOOLONG", "EACCES"}

\* A directory has been copied into itself without refusal.
C36_CopiedIntoItself ==
  CopiedIntoItself /\ op.err # "EACCES"

\* The step is the handling of a delete job.
DeleteHandled ==
  /\ cur # 0
  /\ cur' = 0
  /\ msg[cur].subject = "nasx.root.fs.delete"

\* The handling was acknowledged, published one completed event with the
\* result ok, and left the filesystem as it was.
SucceededUnchanged ==
  /\ last'.ack = "ack"
  /\ Len(last'.events) = 1
  /\ last'.events[1].status = "completed"
  /\ last'.events[1].result = "ok"
  /\ fs' = fs

\* doDelete was called: the account was resolved and the identity set up.
RemovalRan == \E i \in DOMAIN last'.trace : last'.trace[i] = "fs"

C38_RecentNotEvicted ==
  \A e \in backend.gc.evictions : e.at - e.heard >= UPLOAD_TTL_MS

\* C38, the rest: every evicted upload was created more than the TTL
\* before, was handed to onStale exactly once, and is no longer in the
\* store.
C38_EvictedOnce ==
  /\ \A e \in backend.gc.evictions : e.at - e.createdAt > UPLOAD_TTL_MS
  /\ \A n \in DOMAIN backend.gc.calls :
       /\ backend.gc.calls[n] = 1
       /\ \A id \in DOMAIN backend.uploadState : backend.uploadState[id] # n
  /\ \A e \in backend.gc.evictions : e.serial \in DOMAIN backend.gc.calls

\* An upload was evicted, and the store holds a later upload of its id.
C38_EvictedAndStartedAgain ==
  \E e \in backend.gc.evictions :
    /\ e.id \in DOMAIN backend.uploadState
    /\ backend.uploadState[e.id] > e.serial

====
